---- MODULE Spec2Model ----
(***************************************************************************)
(* Model of the research question answering service (ZigaoWang/ai-search). *)
(* The variant modelled is the two-source server (Semantic Scholar + CORE) *)
(* with the cached aggregator, the relevance filter and the token level    *)
(* streaming endpoint: src/unnamed/part_003.                               *)
(*                                                                         *)
(* Strings are sequences of symbols.  Titles and queries are sequences of  *)
(* characters; author strings are sequences of words and separators; the   *)
(* provider's server-sent byte stream is a sequence of byte groups.        *)
(***************************************************************************)
EXTENDS Integers, Sequences, FiniteSets, TLC

(***************************************************************************)
(* Bounds of the model.                                                    *)
(***************************************************************************)
\* number of clock advances (each of TickStep milliseconds)
MaxTicks == 2

(***************************************************************************)
(* Program constants.                                                      *)
(***************************************************************************)
CACHE_TTL == 3600000
StreamLimit == 5
QuestionLimit == 10
FilterMaxPapers == 5
DefaultRetries == 3
AltQueryMaxLen == 100
MinSliceSize == 15
CurrentYear == 2026

(***************************************************************************)
(* Generic helpers.                                                        *)
(***************************************************************************)
Min(a, b) == IF a <= b THEN a ELSE b
Max(a, b) == IF a >= b THEN a ELSE b
\* Math.ceil(a / b) for a >= 0, b > 0
CeilDiv(a, b) == (a + b - 1) \div b
Range(s) == {s[i] : i \in 1..Len(s)}
\* F applied to the value of v, which is computed once
WithValue(v, F(_)) == CHOOSE r \in { F(x) : x \in {v} } : TRUE
Take(s, n) == SubSeq(s, 1, Min(n, Len(s)))
Drop(s, n) == SubSeq(s, Min(n, Len(s)) + 1, Len(s))
RECURSIVE Flatten(_)
Flatten(ss) ==
  WithValue(ss, LAMBDA lists : IF lists = <<>> THEN <<>> ELSE Head(lists) \o Flatten(Tail(lists)))
\* String.prototype.includes: needle occurs in hay (the empty needle always does)
Includes(hay, needle) ==
  \E i \in 0..(Len(hay) - Len(needle)) : SubSeq(hay, i + 1, i + Len(needle)) = needle

(***************************************************************************)
(* Characters.  "E9" stands for one non-ASCII letter, "TAB" for a tab.     *)
(***************************************************************************)
IsSpace(c) == c \in {" ", "TAB"}
\* the placeholder titles are opaque words
IsWordChar(c) ==
  c \in {"a", "b", "c", "A", "B", "C", "0", "1", "_", "No title available", "N/A"}
IsAscii(c) == c # "E9"
ToLowerChar(c) ==
  CASE c = "A" -> "a" [] c = "B" -> "b" [] c = "C" -> "c" [] OTHER -> c
ToLower(s) == [i \in 1..Len(s) |-> ToLowerChar(s[i])]
RECURSIVE TrimLeft(_)
TrimLeft(s) == IF s # <<>> /\ IsSpace(Head(s)) THEN TrimLeft(Tail(s)) ELSE s
RECURSIVE TrimRight(_)
TrimRight(s) ==
  IF s # <<>> /\ IsSpace(s[Len(s)]) THEN TrimRight(SubSeq(s, 1, Len(s) - 1)) ELSE s
Trim(s) == TrimRight(TrimLeft(s))
\* .replace(/\s+/g, ' ')
RECURSIVE CollapseFrom(_, _)
CollapseFrom(s, i) ==
  IF i > Len(s) THEN <<>>
  ELSE (IF IsSpace(s[i])
          THEN (IF i > 1 /\ IsSpace(s[i - 1]) THEN <<>> ELSE <<" ">>)
          ELSE <<s[i]>>) \o CollapseFrom(s, i + 1)
\* .replace(/[^\w\s]/g, '')
StripPunct(s) == SelectSeq(s, LAMBDA c : IsWordChar(c) \/ IsSpace(c))

(***************************************************************************)
(* removeDuplicatePapers (part_003:473-508).                               *)
(***************************************************************************)
\* a variant of normalizeTitle that keeps the letter case
normalizeTitle_KeepsCase(title) == Trim(CollapseFrom(StripPunct(title), 1))
normalizeTitle(title) == Trim(CollapseFrom(StripPunct(ToLower(title)), 1))
\* a variant of IsDuplicateTitle that looks for the earlier title inside the later one only
IsDuplicateTitle_OneWay(normalizedTitle, processedTitles) ==
  \E existingTitle \in processedTitles :
    /\ Len(normalizedTitle) > 0
    /\ Includes(normalizedTitle, existingTitle)
\* the inner loop over processedTitles
IsDuplicateTitle(normalizedTitle, processedTitles) ==
  \E existingTitle \in processedTitles :
    /\ Len(normalizedTitle) > 0
    /\ (Includes(normalizedTitle, existingTitle) \/ Includes(existingTitle, normalizedTitle))
\* a variant of DedupFrom that puts a kept paper in front (unshift for push)
RECURSIVE DedupFrom_Unshift(_, _, _, _)
DedupFrom_Unshift(papers, i, uniquePapers, processedTitles) ==
  IF i > Len(papers) THEN uniquePapers
  ELSE WithValue(normalizeTitle(papers[i].title), LAMBDA normalizedTitle :
         IF IsDuplicateTitle(normalizedTitle, processedTitles)
           THEN DedupFrom_Unshift(papers, i + 1, uniquePapers, processedTitles)
           ELSE DedupFrom_Unshift(papers, i + 1, <<papers[i]>> \o uniquePapers,
                  processedTitles \cup {normalizedTitle}))
RECURSIVE DedupFrom(_, _, _, _)
DedupFrom(papers, i, uniquePapers, processedTitles) ==
  IF i > Len(papers) THEN uniquePapers
  ELSE WithValue(normalizeTitle(papers[i].title), LAMBDA normalizedTitle :
         IF IsDuplicateTitle(normalizedTitle, processedTitles)
           THEN DedupFrom(papers, i + 1, uniquePapers, processedTitles)
           ELSE DedupFrom(papers, i + 1, Append(uniquePapers, papers[i]),
                  processedTitles \cup {normalizedTitle}))
removeDuplicatePapers(papers) == WithValue(papers, LAMBDA list : DedupFrom(list, 1, <<>>, {}))

(***************************************************************************)
(* Array.prototype.sort with a comparator b.key - a.key: stable,           *)
(* descending.  keys[i] is the key of s[i].                                *)
(***************************************************************************)
InsertIdx(sorted, i, keys) ==
  LET n == Cardinality({p \in 1..Len(sorted) : keys[sorted[p]] >= keys[i]})
  IN SubSeq(sorted, 1, n) \o <<i>> \o SubSeq(sorted, n + 1, Len(sorted))
RECURSIVE SortIdxFrom(_, _, _)
SortIdxFrom(keys, i, sorted) ==
  IF i > Len(keys) THEN sorted
  ELSE WithValue(InsertIdx(sorted, i, keys), LAMBDA next : SortIdxFrom(keys, i + 1, next))
StableSortDesc(s, keys) ==
  WithValue(s, LAMBDA list :
    WithValue(WithValue(keys, LAMBDA k : SortIdxFrom(k, 1, <<>>)), LAMBDA idx :
      [p \in 1..Len(list) |-> list[idx[p]]]))

(***************************************************************************)
(* balanceResultSources (part_003:184-232).                                *)
(***************************************************************************)
SourceKey(paper) == IF paper.source = "" THEN "Unknown" ELSE paper.source
\* Object.keys(bySource): the sources in order of first appearance
RECURSIVE SourcesFrom(_, _, _)
SourcesFrom(papers, i, acc) ==
  IF i > Len(papers) THEN acc
  ELSE SourcesFrom(papers, i + 1,
         IF SourceKey(papers[i]) \in Range(acc) THEN acc ELSE Append(acc, SourceKey(papers[i])))
BySource(papers, source) == SelectSeq(papers, LAMBDA p : SourceKey(p) = source)
\* a variant of balanceResultSources that fills up in input order, without sorting
balanceResultSources_Unsorted(papers, targetTotal) ==
  IF papers = <<>> THEN <<>>
  ELSE
    WithValue(SourcesFrom(papers, 1, <<>>), LAMBDA sources :
      IF Len(sources) <= 1 THEN papers
      ELSE
        LET perSourceTarget == CeilDiv(targetTotal, Len(sources)) IN
        WithValue(Flatten([k \in 1..Len(sources) |->
                    Take(BySource(papers, sources[k]), perSourceTarget)]), LAMBDA firstRound :
          WithValue(Flatten([k \in 1..Len(sources) |->
                      Drop(BySource(papers, sources[k]), perSourceTarget)]), LAMBDA remaining :
            IF Len(firstRound) < targetTotal
              THEN firstRound \o Take(remaining, targetTotal - Len(firstRound))
              ELSE firstRound)))
\* a variant of balanceResultSources whose per-source share is rounded down
balanceResultSources_Floor(papers, targetTotal) ==
  IF papers = <<>> THEN <<>>
  ELSE
    WithValue(SourcesFrom(papers, 1, <<>>), LAMBDA sources :
      IF Len(sources) <= 1 THEN papers
      ELSE
        LET perSourceTarget == targetTotal \div Len(sources) IN
        WithValue(Flatten([k \in 1..Len(sources) |->
                    Take(BySource(papers, sources[k]), perSourceTarget)]), LAMBDA firstRound :
          WithValue(Flatten([k \in 1..Len(sources) |->
                      Drop(BySource(papers, sources[k]), perSourceTarget)]), LAMBDA remaining :
            LET sortedRemaining == StableSortDesc(remaining,
                                     [k \in 1..Len(remaining) |-> remaining[k].citationCount])
            IN IF Len(firstRound) < targetTotal
                 THEN firstRound \o Take(sortedRemaining, targetTotal - Len(firstRound))
                 ELSE firstRound)))
balanceResultSources(papers, targetTotal) ==
  IF papers = <<>> THEN <<>>
  ELSE
    WithValue(SourcesFrom(papers, 1, <<>>), LAMBDA sources :
      IF Len(sources) <= 1 THEN papers
      ELSE
        LET perSourceTarget == CeilDiv(targetTotal, Len(sources)) IN
        WithValue(Flatten([k \in 1..Len(sources) |->
                    Take(BySource(papers, sources[k]), perSourceTarget)]), LAMBDA firstRound :
          WithValue(Flatten([k \in 1..Len(sources) |->
                      Drop(BySource(papers, sources[k]), perSourceTarget)]), LAMBDA remaining :
            LET sortedRemaining == StableSortDesc(remaining,
                                     [k \in 1..Len(remaining) |-> remaining[k].citationCount])
            IN IF Len(firstRound) < targetTotal
                 THEN firstRound \o Take(sortedRemaining, targetTotal - Len(firstRound))
                 ELSE firstRound)))

(***************************************************************************)
(* rankPapersByRelevance (part_003:513-546).  Scores are in thousandths.   *)
(***************************************************************************)
NoAbstract == <<"No abstract available">>
\* the years the catalogue uses, as printed, with parseInt of each
NumericYears == {"2026", "2024", "2019"}
YearNumber(y) == CASE y = "2026" -> 2026 [] y = "2024" -> 2024 [] y = "2019" -> 2019
\* round(1000 * 2 * ln(c + 1)), capped at 10000 (reached from c = 148 on)
CitationScore(c) ==
  CASE c = 0 -> 0 [] c = 1 -> 1386 [] c = 2 -> 2197 [] c = 3 -> 2773
    [] c = 4 -> 3219 [] c = 5 -> 3584 [] c = 6 -> 3892 [] c = 7 -> 4159
    [] c = 8 -> 4394 [] c = 9 -> 4605 [] c = 10 -> 4796 [] OTHER -> 10000
RelevanceScore(paper, query) ==
  LET hasAbstract == paper.abstract # <<>> /\ paper.abstract # NoAbstract
      hasCitations == paper.citationCount > 0
      hasAuthors == Len(paper.authors) > 0
      yearDiff == IF paper.year \in NumericYears
                    THEN CurrentYear - YearNumber(paper.year) ELSE 10
      recencyScore == Max(0, 5 - yearDiff)
      titleRelevance == IF Includes(ToLower(paper.title), ToLower(query)) THEN 5 ELSE 0
      abstractRelevance ==
        IF hasAbstract /\ Includes(ToLower(paper.abstract), ToLower(query)) THEN 3 ELSE 0
      completenessScore == (IF hasAbstract THEN 2 ELSE 0) + (IF hasCitations THEN 1 ELSE 0)
                           + (IF hasAuthors THEN 2 ELSE 0)
  IN 1000 * (recencyScore + titleRelevance + abstractRelevance + completenessScore)
     + CitationScore(paper.citationCount)
\* a variant of rankPapersByRelevance that scores and does not sort
rankPapersByRelevance_Unsorted(papers, query) ==
  [i \in 1..Len(papers) |->
     [title |-> papers[i].title, abstract |-> papers[i].abstract,
      year |-> papers[i].year, citationCount |-> papers[i].citationCount,
      authors |-> papers[i].authors, source |-> papers[i].source,
      relevanceScore |-> RelevanceScore(papers[i], query)]]
rankPapersByRelevance(papers, query) ==
  WithValue([i \in 1..Len(papers) |->
        [title |-> papers[i].title, abstract |-> papers[i].abstract,
         year |-> papers[i].year, citationCount |-> papers[i].citationCount,
         authors |-> papers[i].authors, source |-> papers[i].source,
         relevanceScore |-> RelevanceScore(papers[i], query)]], LAMBDA scoredPapers :
    StableSortDesc(scoredPapers,
      [i \in 1..Len(scoredPapers) |-> scoredPapers[i].relevanceScore]))

(***************************************************************************)
(* The provider side of the academic search: what the two sources hold.    *)
(* A raw record has the provider's fields; an absent field is the empty    *)
(* value.  authors is the provider's array of names (a name is a sequence  *)
(* of words), hasAuthors tells whether the array is there at all.          *)
(***************************************************************************)
PrimaryQuery == <<"a", "b">>
ForeignQuery == <<"E9">>
AltTerm == <<"b">>
Raw(title, abstract, year, citationCount, hasAuthors, authors) ==
  [title |-> title, abstract |-> abstract, year |-> year,
   citationCount |-> citationCount, hasAuthors |-> hasAuthors, authors |-> authors]
Ada == <<"Ada", "Lovelace">>
Alan == <<"Alan", "Turing">>
\* a query Semantic Scholar has more records for than the smallest slice holds
RichQuery == <<"c", "c">>
RichCatalogue ==
  [i \in 1..(MinSliceSize + 1) |->
     Raw(<< <<"a", "b", "c", "0">>[((i - 1) \div 4) + 1], <<"a", "b", "c", "0">>[((i - 1) % 4) + 1] >>,
         <<>>, "2024", i, TRUE, <<Ada>>)]
SSCatalogue(query) ==
  IF query = RichQuery THEN RichCatalogue
  ELSE IF query = AltTerm
    THEN << Raw(<<"c", "1">>, <<"a", "b">>, "2024", 3, TRUE, <<Alan>>),
            Raw(<<"b", "0">>, <<>>, "2019", 200, TRUE, <<Alan, Ada>>) >>
    ELSE << Raw(<<"a", "0">>, <<"a", "b", "c">>, "2024", 10, TRUE, <<Ada>>),
            Raw(<<"b", "0">>, <<>>, "2019", 200, TRUE, <<Alan, Ada>>),
            Raw(<<"c", "0">>, <<>>, "", 0, FALSE, <<>>),
            Raw(<<"a", "b", "1">>, <<>>, "2026", 1, TRUE, <<>>) >>
CoreCatalogue(query) ==
  IF query = AltTerm
    THEN << Raw(<<"C", "1", "!">>, <<>>, "2024", 0, TRUE, <<Ada>>),
            Raw(<<"0", "1">>, <<>>, "", 0, TRUE, <<Ada>>) >>
    ELSE << Raw(<<"TAB", "A", "0", "!">>, <<>>, "2024", 0, TRUE, <<Ada>>),
            Raw(<<"a", "1">>, <<"c">>, "2019", 0, TRUE, <<Alan>>),
            Raw(<<"b", "1">>, <<>>, "", 0, FALSE, <<>>) >>

(***************************************************************************)
(* Adapters: normalisation of a raw record (part_003:388-404, 449-459).    *)
(***************************************************************************)
RECURSIVE JoinWith(_, _)
JoinWith(parts, sep) ==
  IF parts = <<>> THEN <<>>
  ELSE IF Len(parts) = 1 THEN Head(parts)
  ELSE Head(parts) \o sep \o JoinWith(Tail(parts), sep)
\* a name as printed: its words separated by one space
NameText(name) == JoinWith([i \in 1..Len(name) |-> <<name[i]>>], <<" ">>)
\* paper.authors.map(...).join(', '), or 'Unknown' when there is no array
AuthorsText(raw) ==
  IF raw.hasAuthors
    THEN JoinWith([i \in 1..Len(raw.authors) |-> NameText(raw.authors[i])], <<",", " ">>)
    ELSE <<"Unknown">>
NormalizeSemanticScholar(raw) ==
  [title |-> IF raw.title = <<>> THEN <<"No title available">> ELSE raw.title,
   abstract |-> IF raw.abstract = <<>> THEN NoAbstract ELSE raw.abstract,
   year |-> IF raw.year = "" THEN "Unknown" ELSE raw.year,
   citationCount |-> raw.citationCount,
   authors |-> AuthorsText(raw),
   source |-> "Semantic Scholar"]
NormalizeCore(raw) ==
  [title |-> IF raw.title = <<>> THEN <<"N/A">> ELSE raw.title,
   abstract |-> IF raw.abstract = <<>> THEN NoAbstract ELSE raw.abstract,
   year |-> IF raw.year = "" THEN "N/A" ELSE raw.year,
   citationCount |-> 0,
   authors |-> AuthorsText(raw),
   source |-> "CORE"]
\* the list an adapter call resolves to when the provider answers 200 with data
AdapterList(kind, query, limit) ==
  IF kind = "ss"
    THEN LET raw == Take(SSCatalogue(query), limit)
         IN [i \in 1..Len(raw) |-> NormalizeSemanticScholar(raw[i])]
    ELSE LET raw == Take(CoreCatalogue(query), limit)
         IN [i \in 1..Len(raw) |-> NormalizeCore(raw[i])]

(***************************************************************************)
(* Query expansion (part_003:246-367).                                     *)
(***************************************************************************)
detectNonEnglishQuery(query) == \E i \in 1..Len(query) : ~IsAscii(query[i])
\* replies of the provider to the alternatives request
ExpandReplies ==
  { [kind |-> "fail", items |-> <<>>],
    [kind |-> "notjson", items |-> <<>>],
    [kind |-> "array",
     items |-> << [isString |-> TRUE, text |-> PrimaryQuery],
                  [isString |-> FALSE, text |-> <<>>],
                  [isString |-> TRUE, text |-> AltTerm],
                  [isString |-> TRUE, text |-> <<>>],
                  [isString |-> TRUE, text |-> AltTerm] >>] }
RECURSIVE AddAlternatives(_, _, _)
AddAlternatives(searchTerms, items, i) ==
  IF i > Len(items) THEN searchTerms
  ELSE AddAlternatives(
         IF items[i].isString /\ items[i].text # <<>> /\ items[i].text \notin Range(searchTerms)
           THEN Append(searchTerms, items[i].text) ELSE searchTerms,
         items, i + 1)
\* [...new Set(searchTerms)]
RECURSIVE Unique(_, _)
Unique(s, acc) ==
  IF s = <<>> THEN acc
  ELSE Unique(Tail(s), IF Head(s) \in Range(acc) THEN acc ELSE Append(acc, Head(s)))
\* a variant of SearchTermsFor that starts from the empty list
SearchTermsFor_AlternativesOnly(query, reply) ==
  IF reply.kind = "fail" THEN <<query>>
  ELSE IF reply.kind = "array" THEN Unique(AddAlternatives(<<>>, reply.items, 1), <<>>)
  ELSE Unique(<<query>>, <<>>)
\* the value generateAlternativeSearchTerms resolves to, given the provider's reply
SearchTermsFor(query, reply) ==
  IF reply.kind = "fail" THEN <<query>>
  ELSE IF reply.kind = "array" THEN Unique(AddAlternatives(<<query>>, reply.items, 1), <<>>)
  ELSE Unique(<<query>>, <<>>)

(***************************************************************************)
(* searchPapers: the steps after the fan-out (part_003:153-178).           *)
(***************************************************************************)
RankedResults(allResults, englishQuery, limit) ==
  WithValue(removeDuplicatePapers(allResults), LAMBDA uniqueResults :
    WithValue(balanceResultSources(uniqueResults, limit), LAMBDA rebalancedResults :
      WithValue(rankPapersByRelevance(rebalancedResults, englishQuery), LAMBDA rankedResults :
        Take(rankedResults, Max(MinSliceSize, limit * 2)))))

(***************************************************************************)
(* filterRelevantPapers (part_003:1099-1187): the value it resolves to.    *)
(***************************************************************************)
FilterReplies ==
  { [kind |-> "fail", ids |-> <<>>],
    [kind |-> "notjson", ids |-> <<>>],
    [kind |-> "array", ids |-> <<>>],
    [kind |-> "array", ids |-> <<9, 9>>],
    [kind |-> "array", ids |-> <<4, 0, 7, 2, 1, 3>>] }
\* selectedIds.map(id => papers[id]).filter(Boolean)
SelectedPapers(papers, ids) ==
  LET valid == SelectSeq(ids, LAMBDA id : id >= 0 /\ id < Len(papers))
  IN [i \in 1..Len(valid) |-> papers[valid[i] + 1]]
\* a variant of FilterResult that returns an empty selection as it is
FilterResult_EmptySelection(papers, reply) ==
  IF reply.kind # "array" THEN papers
  ELSE SelectedPapers(papers, reply.ids)
\* a variant of FewPapers that filters a list of exactly maxPapers papers
FewPapers_Strict(papers, maxPapers) == Len(papers) < maxPapers
\* if (papers.length <= maxPapers) return papers
FewPapers(papers, maxPapers) == Len(papers) <= maxPapers
\* the value after the provider's reply
FilterResult(papers, reply) ==
  IF reply.kind # "array" THEN papers
  ELSE IF SelectedPapers(papers, reply.ids) = <<>> THEN papers
  ELSE SelectedPapers(papers, reply.ids)

(***************************************************************************)
(* Citations and citation keys (part_003:1329-1385, 814-823, 628-653).     *)
(***************************************************************************)
MakeCitation(paper) ==
  [title |-> IF paper.title = <<>> THEN <<"N/A">> ELSE paper.title,
   abstract |-> IF paper.abstract = <<>> THEN NoAbstract ELSE paper.abstract,
   year |-> IF paper.year = "" THEN "N/A" ELSE paper.year,
   citationCount |-> paper.citationCount,
   authors |-> paper.authors]
\* s.split(sep)[0]
BeforeFirst(s, sep) ==
  IF sep \in Range(s)
    THEN SubSeq(s, 1, (CHOOSE i \in 1..Len(s) : s[i] = sep /\ \A j \in 1..(i - 1) : s[j] # sep) - 1)
    ELSE s
\* s.split(sep).pop()
AfterLast(s, sep) ==
  IF sep \in Range(s)
    THEN SubSeq(s, (CHOOSE i \in 1..Len(s) : s[i] = sep /\ \A j \in (i + 1)..Len(s) : s[j] # sep) + 1,
                Len(s))
    ELSE s
CitationKey(citation) ==
  LET firstAuthor == BeforeFirst(citation.authors, ",")
      authorLastName == IF firstAuthor = <<>> THEN <<"Unknown">> ELSE AfterLast(firstAuthor, " ")
  IN authorLastName \o (IF citation.year = "" THEN <<>> ELSE <<citation.year>>)
\* a variant of WithKey that marks the key of every entry after the first
WithKey_Positional(citation, index) ==
  [title |-> citation.title, abstract |-> citation.abstract, year |-> citation.year,
   citationCount |-> citation.citationCount, authors |-> citation.authors,
   citationKey |-> CitationKey(citation) \o (IF index > 1 THEN <<"b">> ELSE <<>>),
   index |-> index]
WithKey(citation, index) ==
  [title |-> citation.title, abstract |-> citation.abstract, year |-> citation.year,
   citationCount |-> citation.citationCount, authors |-> citation.authors,
   citationKey |-> CitationKey(citation), index |-> index]
CitationsWithKeys(citations) == [i \in 1..Len(citations) |-> WithKey(citations[i], i)]
\* a variant of CitationMapping that lists the entries last paper first
CitationMapping_Reversed(citationsWithKeys) ==
  [i \in 1..Len(citationsWithKeys) |->
     LET c == citationsWithKeys[Len(citationsWithKeys) + 1 - i]
     IN [key |-> c.citationKey, title |-> c.title, authors |-> c.authors, year |-> c.year]]
CitationMapping(citationsWithKeys) ==
  [i \in 1..Len(citationsWithKeys) |->
     [key |-> citationsWithKeys[i].citationKey, title |-> citationsWithKeys[i].title,
      authors |-> citationsWithKeys[i].authors, year |-> citationsWithKeys[i].year]]
KeysOf(citationsWithKeys) ==
  [i \in 1..Len(citationsWithKeys) |-> citationsWithKeys[i].citationKey]

(***************************************************************************)
(* The provider's incremental reply on the wire.  A message               *)
(* 'data: {json}\n\n' is three byte groups: H (the 'data: ' prefix with    *)
(* the first half of the JSON text), R (the second half) and N (the blank  *)
(* line that ends it); 'data: [DONE]\n\n' is X and N.  The network cuts    *)
(* the stream into chunks between any two groups.  A message whose delta   *)
(* carries no content has the token "".                                    *)
(***************************************************************************)
Sym(part, tok) == [part |-> part, tok |-> tok]
\* what the provider streams for the analysis and for an answer
ScriptsFor(stage) ==
  IF stage = "analyzing_papers" THEN { <<"t1", "t2">> } ELSE { <<"", "u1">> }
RECURSIVE WireOf(_)
WireOf(script) ==
  IF script = <<>> THEN << Sym("X", ""), Sym("N", "") >>
  ELSE << Sym("H", Head(script)), Sym("R", Head(script)), Sym("N", "") >> \o WireOf(Tail(script))
\* the increments of a script that carry content
Increments(script) == SelectSeq(script, LAMBDA t : t # "")
\* chunk.toString().split('\n\n')
RECURSIVE SplitLines(_, _)
SplitLines(chunk, line) ==
  IF chunk = <<>> THEN <<line>>
  ELSE IF Head(chunk).part = "N" THEN <<line>> \o SplitLines(Tail(chunk), <<>>)
  ELSE SplitLines(Tail(chunk), Append(line, Head(chunk)))
\* the content the 'data' callback takes from one line ("" when it takes none):
\* the line must start with 'data: ', not be [DONE], and parse as JSON
LineContent(line) ==
  IF line # <<>> /\ Head(line).part = "H" /\ Len(line) = 2
     /\ line[2].part = "R" /\ line[2].tok = line[1].tok
    THEN line[1].tok ELSE ""
\* the tokens one 'data' callback forwards, in order (part_003:1004-1035)
ChunkTokens(chunk) ==
  LET lines == SplitLines(chunk, <<>>)
  IN Increments([i \in 1..Len(lines) |-> LineContent(lines[i])])
\* texts the non-streaming completion calls return
FallbackTextFor(stage) == IF stage = "analyzing_papers" THEN <<"f1">> ELSE <<"f2">>
AnalysisReplyText == <<"r1">>
AnswerReplyText == <<"r2">>
DirectReplyText == <<"d1">>
NoPapersText == <<"no papers found">>

(***************************************************************************)
(* State.                                                                  *)
(***************************************************************************)
VARIABLES
  pc,           \* position of the request handler
  req,          \* the request being served: endpoint and question
  ticks,        \* number of clock advances so far
  now,          \* Date.now()
  hasCoreKey,   \* whether CORE_API_KEY is set
  searchCache,  \* the process-wide Map, as a set of [key, results, timestamp]
  events,       \* what has been written to the response with res.write
  ended,        \* res.end() / res.json() has been called
  httpStatus,   \* status of a JSON response (0: none sent)
  body,         \* the result object of a 200 JSON response
  callLog,      \* every outbound call the request made, in order (an adapter's
                \* retries are attempts of the one call)
  outstanding,  \* the outbound calls not yet returned
  h,            \* locals of the handler
  s,            \* locals of searchPapers
  st,           \* locals of streamOpenAIResponse
  failedIn,     \* the stage in which the exception that ended the request was thrown
  fn            \* a function called on its own: its arguments, the provider's
                \* reply to it and the value it returned

vars == << pc, req, ticks, now, hasCoreKey, searchCache, events, ended,
           httpStatus, body, callLog, outstanding, h, s, st, failedIn, fn >>

Endpoints == {"stream", "get", "getsse", "post"}
Questions == {<<>>, <<"q">>}
QueryWords == {PrimaryQuery, ForeignQuery}
TickStep == CACHE_TTL \div 2

NoResult ==
  [kind |-> "none", answer |-> <<>>, citations |-> <<>>, note |-> FALSE,
   paperAnalysis |-> <<>>, citationMapping |-> <<>>]
Ev(status, stage) ==
  [status |-> status, stage |-> stage, token |-> "", content |-> <<>>, result |-> NoResult]
TokenEv(stage, token) ==
  [status |-> "token", stage |-> stage, token |-> token, content |-> <<>>, result |-> NoResult]
ChunkCompleteEv(stage, content) ==
  [status |-> "chunk_complete", stage |-> stage, token |-> "", content |-> content,
   result |-> NoResult]
CompleteEv(result) ==
  [status |-> "complete", stage |-> "", token |-> "", content |-> <<>>, result |-> result]
Call(kind, term, retries) == [kind |-> kind, term |-> term, retries |-> retries]
Logged(kind, term, keys, text) == [kind |-> kind, term |-> term, keys |-> keys, text |-> text]

InitH ==
  [decision |-> "", canAnswer |-> FALSE, queryWord |-> <<>>, papers |-> <<>>,
   filteredPapers |-> <<>>, filteredCitations |-> <<>>,
   citationsWithKeys |-> <<>>, paperAnalysis |-> <<>>]
InitS ==
  [query |-> <<>>, limit |-> 0, cacheKey |-> <<>>, englishQuery |-> <<>>, searchTerms |-> <<>>,
   allResults |-> <<>>, returned |-> {}, result |-> <<>>, settled |-> 0, failed |-> 0]
InitSt == [stage |-> "", script |-> <<>>, remaining |-> <<>>, completeResponse |-> <<>>]
InitFn == [papers |-> <<>>, maxPapers |-> 0, reply |-> <<>>, value |-> <<>>, again |-> <<>>,
           query |-> <<>>, englishQuery |-> <<>>]

\* The process has served requests before this one: the cache is empty or holds
\* what an earlier searchPapers("ab", StreamLimit) stored at time 0, with every
\* source answering or with every source failing.
FullFanOut ==
  Flatten([k \in 1..2 |->
     AdapterList("ss", <<PrimaryQuery, AltTerm>>[k], CeilDiv(StreamLimit, 2))
       \o AdapterList("core", <<PrimaryQuery, AltTerm>>[k], CeilDiv(StreamLimit, 2))])
InitCaches ==
  { {},
    { [key |-> PrimaryQuery, timestamp |-> 0,
       results |-> RankedResults(FullFanOut, PrimaryQuery, StreamLimit)] },
    { [key |-> PrimaryQuery, timestamp |-> 0, results |-> <<>>] } }

Init ==
  /\ pc = "idle"
  /\ req = [endpoint |-> "stream", question |-> <<>>, closed |-> FALSE]
  /\ ticks = 0
  /\ now = 0
  /\ hasCoreKey \in BOOLEAN
  /\ searchCache \in InitCaches
  /\ events = <<>>
  /\ ended = FALSE
  /\ httpStatus = 0
  /\ body = NoResult
  /\ callLog = <<>>
  /\ outstanding = {}
  /\ h = InitH
  /\ s = InitS
  /\ st = InitSt
  /\ failedIn = ""
  /\ fn = InitFn

envVars == << ticks, now, hasCoreKey, fn >>

(***************************************************************************)
(* How a request ends.                                                     *)
(***************************************************************************)
\* a variant of ErrorStage that names the stage that threw
ErrorStage_Named(stageName) == stageName
\* the stage field of the error event (part_003:1495-1499)
ErrorStage(stageName) == "error"
\* a variant of Fail whose catch block writes the error and leaves the response open
Fail_NoEnd(stageName, written) ==
  /\ failedIn' = stageName
  /\ pc' = "done"
  /\ outstanding' = {}
  /\ ended' = ended
  /\ body' = body
  /\ IF req.endpoint = "stream"
       THEN /\ events' = events \o written \o << Ev("error", ErrorStage(stageName)) >>
            /\ httpStatus' = httpStatus
       ELSE IF req.endpoint = "getsse"
         THEN /\ events' = events \o written \o << Ev("error", "") >>
              /\ httpStatus' = httpStatus
         ELSE /\ events' = events
              /\ httpStatus' = 500
\* an exception reaches the catch block of the handler; `written` are the
\* events of the current step written before the throw
Fail(stageName, written) ==
  /\ failedIn' = stageName
  /\ pc' = "done"
  /\ outstanding' = {}
  /\ ended' = TRUE
  /\ body' = body
  /\ IF req.endpoint = "stream"
       THEN /\ events' = events \o written \o << Ev("error", ErrorStage(stageName)) >>
            /\ httpStatus' = httpStatus
       ELSE IF req.endpoint = "getsse"
         THEN /\ events' = events \o written \o << Ev("error", "") >>
              /\ httpStatus' = httpStatus
         ELSE /\ events' = events
              /\ httpStatus' = 500
\* processQuestion returns `result` to the /question handler
Respond(result) ==
  /\ pc' = "done"
  /\ outstanding' = {}
  /\ ended' = TRUE
  /\ failedIn' = failedIn
  /\ IF req.endpoint = "getsse"
       THEN /\ events' = Append(events, CompleteEv(result))
            /\ UNCHANGED << httpStatus, body >>
       ELSE /\ httpStatus' = 200
            /\ body' = result
            /\ events' = events
\* a variant of DirectResult without the note
DirectResult_NoNote(answer) ==
  [kind |-> "direct", answer |-> answer, citations |-> <<>>, note |-> FALSE,
   paperAnalysis |-> <<>>, citationMapping |-> <<>>]
DirectResult(answer) ==
  [kind |-> "direct", answer |-> answer, citations |-> <<>>, note |-> TRUE,
   paperAnalysis |-> <<>>, citationMapping |-> <<>>]
\* a variant of NoPapersResult with no explanation
NoPapersResult_EmptyAnswer ==
  [kind |-> "nopapers", answer |-> <<>>, citations |-> <<>>, note |-> FALSE,
   paperAnalysis |-> <<>>, citationMapping |-> <<>>]
NoPapersResult ==
  [kind |-> "nopapers", answer |-> NoPapersText, citations |-> <<>>, note |-> FALSE,
   paperAnalysis |-> <<>>, citationMapping |-> <<>>]
ResearchResult(answer, citations, paperAnalysis, citationsWithKeys) ==
  [kind |-> "research", answer |-> answer, citations |-> citations, note |-> FALSE,
   paperAnalysis |-> paperAnalysis, citationMapping |-> CitationMapping(citationsWithKeys)]

(***************************************************************************)
(* A request arrives (part_003:1194-1226, 858-909, 930-943).               *)
(***************************************************************************)
\* a variant of MissingQuestion that lets every request through
MissingQuestion_Never(question) == FALSE
\* !question
MissingQuestion(question) == question = <<>>
Receive(ep, q) ==
  /\ pc = "idle"
  /\ req' = [endpoint |-> ep, question |-> q, closed |-> FALSE]
  /\ h' = InitH /\ s' = InitS /\ st' = InitSt
  /\ failedIn' = ""
  /\ body' = NoResult
  /\ UNCHANGED << ticks, now, hasCoreKey, searchCache, fn >>
  /\ IF MissingQuestion(q)
       THEN /\ httpStatus' = 400
            /\ ended' = TRUE
            /\ events' = <<>>
            /\ callLog' = <<>>
            /\ outstanding' = {}
            /\ pc' = "done"
       ELSE /\ httpStatus' = 0
            /\ ended' = FALSE
            /\ events' = IF ep = "stream"
                           THEN << Ev("connected", ""), Ev("stage_update", "evaluation") >>
                         ELSE IF ep = "getsse" THEN << Ev("processing", "") >>
                         ELSE <<>>
            /\ callLog' = << Logged("eval", <<>>, <<>>, <<>>) >>
            /\ outstanding' = { Call("eval", <<>>, 0) }
            /\ pc' = "evaluating"

(***************************************************************************)
(* decideAnswer returns or throws (part_003:557-612), and the handler      *)
(* goes on to the direct answer or to searchPapers.                        *)
(***************************************************************************)
EvalReplies ==
  { [kind |-> "fail", queryWord |-> <<>>],
    [kind |-> "badjson", queryWord |-> <<>>],
    [kind |-> "can", queryWord |-> <<>>],
    [kind |-> "noquery", queryWord |-> <<>>] }
  \cup { [kind |-> "cannot", queryWord |-> q] : q \in QueryWords }
\* a variant of DecisionThrows in which a reply that is not JSON yields an empty decision
DecisionThrows_Lenient(reply) == reply.kind = "fail"
\* the completion call rejects, or JSON.parse of the stripped reply throws
DecisionThrows(reply) == reply.kind \in {"fail", "badjson"}
EvalReturns(reply) ==
  /\ pc = "evaluating"
  /\ UNCHANGED << envVars, req, searchCache >>
  /\ IF DecisionThrows(reply)
       THEN /\ Fail("evaluation", <<>>)
            /\ h' = [h EXCEPT !.decision = reply.kind]
            /\ UNCHANGED << callLog, s, st >>
     ELSE IF reply.kind = "can"
       THEN /\ h' = [h EXCEPT !.decision = reply.kind, !.canAnswer = TRUE]
            /\ s' = s
            /\ IF req.endpoint = "stream"
                 THEN /\ events' = events \o << Ev("substage_update", "evaluation_complete"),
                                               Ev("streaming", "generating_answer") >>
                      /\ callLog' = Append(callLog, Logged("stream", <<>>, <<>>, <<>>))
                      /\ outstanding' = { Call("stream_req", <<>>, 0) }
                      /\ st' = [InitSt EXCEPT !.stage = "generating_answer"]
                      /\ pc' = "stream_req"
                      /\ UNCHANGED << ended, httpStatus, body, failedIn >>
                 ELSE /\ Respond(DirectResult(DirectReplyText))
                      /\ UNCHANGED << callLog, st >>
     ELSE LET written == IF req.endpoint = "stream"
                           THEN << Ev("substage_update", "evaluation_complete"),
                                   Ev("stage_update", "paper_retrieval") >>
                           ELSE <<>>
          IN IF reply.kind \notin {"cannot"}
               THEN \* query.toLowerCase() on undefined throws inside searchPapers
                    /\ Fail("retrieval", written)
                    /\ h' = [h EXCEPT !.decision = reply.kind]
                    /\ UNCHANGED << callLog, s, st >>
               ELSE /\ h' = [h EXCEPT !.decision = reply.kind, !.queryWord = reply.queryWord]
                    /\ s' = [InitS EXCEPT !.query = reply.queryWord,
                                          !.limit = IF req.endpoint = "stream"
                                                      THEN StreamLimit ELSE QuestionLimit]
                    /\ events' = events \o written
                    /\ outstanding' = {}
                    /\ pc' = "search_check"
                    /\ UNCHANGED << ended, httpStatus, body, failedIn, callLog, st >>

(***************************************************************************)
(* searchPapers (part_003:67-179).                                         *)
(***************************************************************************)
CacheHas(key) == \E e \in searchCache : e.key = key
CacheGet(key) == CHOOSE e \in searchCache : e.key = key
\* a variant of CacheFresh that does not serve an empty list
CacheFresh_NonEmpty(key) ==
  /\ CacheHas(key)
  /\ now - CacheGet(key).timestamp < CACHE_TTL
  /\ CacheGet(key).results # <<>>
\* a variant of CacheFresh that still serves an entry whose age equals the TTL
CacheFresh_Inclusive(key) == CacheHas(key) /\ now - CacheGet(key).timestamp <= CACHE_TTL
CacheFresh(key) == CacheHas(key) /\ now - CacheGet(key).timestamp < CACHE_TTL
\* a variant of CacheSet that stores the head of the list only
CacheSet_HeadOnly(key, results) ==
  {e \in searchCache : e.key # key}
    \cup {[key |-> key, results |-> SubSeq(results, 1, 1), timestamp |-> now]}
\* a variant of CacheSet that leaves an entry another call stored in the meantime
CacheSet_KeepFirst(key, results) ==
  IF \E e \in searchCache : e.key = key THEN searchCache
  ELSE searchCache \cup {[key |-> key, results |-> results, timestamp |-> now]}
\* a variant of CacheSet that does not store an empty list
CacheSet_SkipEmpty(key, results) ==
  IF results = <<>> THEN searchCache
  ELSE {e \in searchCache : e.key # key}
         \cup {[key |-> key, results |-> results, timestamp |-> now]}
CacheSet(key, results) ==
  {e \in searchCache : e.key # key} \cup {[key |-> key, results |-> results, timestamp |-> now]}
PrimaryCalls(terms) ==
  { Call("ss", terms[1], DefaultRetries) }
    \cup (IF hasCoreKey THEN { Call("core", terms[1], 0) } ELSE {})
PrimaryLog(terms) ==
  << Logged("ss", terms[1], <<>>, <<>>) >>
    \o (IF hasCoreKey THEN << Logged("core", terms[1], <<>>, <<>>) >> ELSE <<>>)
AltCalls(terms) ==
  UNION { { Call("ss", terms[k], DefaultRetries) }
            \cup (IF hasCoreKey THEN { Call("core", terms[k], 0) } ELSE {})
          : k \in 2..Len(terms) }
AltLog(terms) ==
  Flatten([k \in 1..(Len(terms) - 1) |->
     << Logged("ss", terms[k + 1], <<>>, <<>>) >>
       \o (IF hasCoreKey THEN << Logged("core", terms[k + 1], <<>>, <<>>) >> ELSE <<>>)])
\* generateAlternativeSearchTerms(englishQuery) is entered: it asks the provider
\* for alternatives, or, for a long query, resolves to [query] and the primary
\* searches start
BeginTerms(base, englishQuery) ==
  IF Len(englishQuery) <= AltQueryMaxLen
    THEN /\ s' = [base EXCEPT !.englishQuery = englishQuery]
         /\ callLog' = Append(callLog, Logged("expand", englishQuery, <<>>, <<>>))
         /\ outstanding' = { Call("expand", englishQuery, 0) }
         /\ pc' = "expanding"
    ELSE /\ s' = [base EXCEPT !.englishQuery = englishQuery, !.searchTerms = <<englishQuery>>]
         /\ callLog' = callLog \o PrimaryLog(<<englishQuery>>)
         /\ outstanding' = PrimaryCalls(<<englishQuery>>)
         /\ pc' = "primary"
SearchCacheCheck ==
  /\ pc = "search_check"
  /\ UNCHANGED << envVars, req, events, ended, httpStatus, body, h, st, failedIn >>
  /\ LET cacheKey == Trim(ToLower(s.query))
         base == [s EXCEPT !.cacheKey = cacheKey]
     IN IF CacheFresh(cacheKey)
          THEN /\ s' = [base EXCEPT !.result = CacheGet(cacheKey).results]
               /\ pc' = "search_done"
               /\ UNCHANGED << searchCache, callLog, outstanding >>
          ELSE /\ searchCache' = {e \in searchCache : e.key # cacheKey}
               /\ IF detectNonEnglishQuery(s.query)
                    THEN /\ s' = base
                         /\ callLog' = Append(callLog, Logged("translate", s.query, <<>>, <<>>))
                         /\ outstanding' = { Call("translate", s.query, 0) }
                         /\ pc' = "translating"
                    ELSE BeginTerms(base, s.query)
\* translateToEnglish resolves: to the translation, or to the query on error
TranslateReturns(ok) ==
  /\ pc = "translating"
  /\ UNCHANGED << envVars, req, searchCache, events, ended, httpStatus, body, h, st, failedIn >>
  /\ BeginTerms(s, IF ok THEN PrimaryQuery ELSE s.query)
ExpandReturns(reply) ==
  /\ pc = "expanding"
  /\ UNCHANGED << envVars, req, searchCache, events, ended, httpStatus, body, h, st, failedIn >>
  /\ LET searchTerms == SearchTermsFor(s.englishQuery, reply)
     IN /\ s' = [s EXCEPT !.searchTerms = searchTerms]
        /\ callLog' = callLog \o PrimaryLog(searchTerms)
        /\ outstanding' = PrimaryCalls(searchTerms)
        /\ pc' = "primary"

\* what the calls of one Promise.all resolved to, concatenated in array order
ReturnedList(returned, kind, term) ==
  IF \E r \in returned : r.kind = kind /\ r.term = term
    THEN (CHOOSE r \in returned : r.kind = kind /\ r.term = term).list
    ELSE <<>>
JoinResults(returned, terms) ==
  WithValue(returned, LAMBDA lists :
    Flatten([k \in 1..Len(terms) |->
       ReturnedList(lists, "ss", terms[k]) \o ReturnedList(lists, "core", terms[k])]))
\* the last steps of searchPapers: dedup, balance, rank, slice, cache write, return
FinishSearch(counted, allResults) ==
  \E all \in {allResults} :
    \E rankedResults \in { RankedResults(all, s.englishQuery, s.limit) } :
      /\ searchCache' = CacheSet(s.cacheKey, rankedResults)
      /\ s' = [counted EXCEPT !.allResults = all, !.returned = {}, !.result = rankedResults]
      /\ outstanding' = {}
      /\ callLog' = callLog
      /\ pc' = "search_done"
\* a variant of RetryCall whose last retry starts with a full budget again
RetryCall_Refills(c) ==
  Call(c.kind, c.term, IF c.retries = 1 THEN DefaultRetries ELSE c.retries - 1)
\* return searchSemanticScholar(query, limit, retries - 1)
RetryCall(c) == Call(c.kind, c.term, c.retries - 1)
AdapterOutcomes(kind) == IF kind = "ss" THEN {"ok", "error", "429"} ELSE {"ok", "error"}
\* one adapter call of the fan-out settles (part_003:99-151, 372-468); the last
\* one of a Promise.all lets searchPapers go on
AdapterReturns(c, outcome) ==
  /\ pc \in {"primary", "alternates"}
  /\ c \in outstanding
  /\ outcome \in AdapterOutcomes(c.kind)
  /\ UNCHANGED << envVars, req, events, ended, httpStatus, body, h, st, failedIn >>
  /\ IF outcome = "429" /\ c.retries > 0
       THEN \* searchSemanticScholar calls itself with one retry less
            /\ outstanding' = (outstanding \ {c}) \cup { RetryCall(c) }
            /\ UNCHANGED << pc, s, searchCache, callLog >>
       ELSE LET cap == IF pc = "primary" THEN CeilDiv(s.limit, 2)
                       ELSE CeilDiv(s.limit, Len(s.searchTerms))
                list == IF outcome = "ok" THEN AdapterList(c.kind, c.term, cap) ELSE <<>>
                returned == s.returned \cup {[kind |-> c.kind, term |-> c.term, list |-> list]}
                left == outstanding \ {c}
                \* how many adapter calls have settled, and how many of them by failing
                counted == [s EXCEPT !.settled = @ + 1,
                                     !.failed = @ + (IF outcome = "ok" THEN 0 ELSE 1)]
            IN IF left # {}
                 THEN /\ s' = [counted EXCEPT !.returned = returned]
                      /\ outstanding' = left
                      /\ UNCHANGED << pc, callLog, searchCache >>
               ELSE IF pc = "primary"
                 THEN LET allResults == JoinResults(returned, <<s.searchTerms[1]>>)
                      IN IF Len(s.searchTerms) > 1
                           THEN /\ s' = [counted EXCEPT !.allResults = allResults,
                                                         !.returned = {}]
                                /\ outstanding' = AltCalls(s.searchTerms)
                                /\ callLog' = callLog \o AltLog(s.searchTerms)
                                /\ pc' = "alternates"
                                /\ searchCache' = searchCache
                           ELSE FinishSearch(counted, allResults)
               ELSE FinishSearch(counted,
                                 s.allResults \o JoinResults(returned, Tail(s.searchTerms)))

(***************************************************************************)
(* The handler after searchPapers resolved (part_003:1267-1435, 802-829).  *)
(***************************************************************************)
Citations(papers) == [i \in 1..Len(papers) |-> MakeCitation(papers[i])]
\* a variant of AnalysisStartEvents that does not announce the stage
AnalysisStartEvents_NoStage ==
  << Ev("substage_update", "papers_selected"),
     Ev("substage_update", "citations_prepared"),
     Ev("streaming", "analyzing_papers") >>
\* what the handler writes between the filter's return and the analysis request
AnalysisStartEvents ==
  << Ev("substage_update", "papers_selected"),
     Ev("stage_update", "paper_analysis"),
     Ev("substage_update", "citations_prepared"),
     Ev("streaming", "analyzing_papers") >>
\* the streaming handler from the filtered papers to the start of the analysis stream
AfterFilter(papers, filteredPapers, written) ==
  LET filteredCitations == Citations(filteredPapers)
      citationsWithKeys == CitationsWithKeys(filteredCitations)
  IN /\ h' = [h EXCEPT !.papers = papers, !.filteredPapers = filteredPapers,
                       !.filteredCitations = filteredCitations,
                       !.citationsWithKeys = citationsWithKeys]
     /\ events' = events \o written \o AnalysisStartEvents
     /\ callLog' = Append(callLog, Logged("stream", <<>>, KeysOf(citationsWithKeys), <<>>))
     /\ outstanding' = { Call("stream_req", <<>>, 0) }
     /\ st' = [InitSt EXCEPT !.stage = "analyzing_papers"]
     /\ pc' = "stream_req"
     /\ UNCHANGED << ended, httpStatus, body, failedIn >>
PapersReturned ==
  /\ pc = "search_done"
  /\ s' = InitS
  /\ UNCHANGED << envVars, req, searchCache >>
  /\ LET papers == s.result IN
     IF req.endpoint = "stream"
       THEN IF papers = <<>>
              THEN /\ events' = events \o << Ev("stage_update", "no_papers_found"),
                                             CompleteEv(NoPapersResult) >>
                   /\ ended' = TRUE
                   /\ pc' = "done"
                   /\ h' = [h EXCEPT !.papers = papers]
                   /\ UNCHANGED << httpStatus, body, failedIn, callLog, outstanding, st >>
              ELSE LET written == << Ev("papers_finding", ""),
                                     Ev("substage_update", "papers_found"),
                                     Ev("substage_update", "filtering_papers") >>
                   IN IF FewPapers(papers, FilterMaxPapers)
                        THEN AfterFilter(papers, papers, written)
                        ELSE /\ h' = [h EXCEPT !.papers = papers]
                             /\ events' = events \o written
                             /\ callLog' = Append(callLog, Logged("filter", <<>>, <<>>, <<>>))
                             /\ outstanding' = { Call("filter", <<>>, 0) }
                             /\ pc' = "filtering"
                             /\ UNCHANGED << ended, httpStatus, body, failedIn, st >>
       ELSE IF papers = <<>>
              THEN /\ Respond(NoPapersResult)
                   /\ h' = [h EXCEPT !.papers = papers]
                   /\ UNCHANGED << callLog, st >>
              ELSE LET citations == Citations(papers)
                       citationsWithKeys == CitationsWithKeys(citations)
                   IN /\ h' = [h EXCEPT !.papers = papers, !.filteredPapers = papers,
                                        !.filteredCitations = citations,
                                        !.citationsWithKeys = citationsWithKeys]
                      /\ callLog' = Append(callLog,
                                      Logged("analysis", <<>>, KeysOf(citationsWithKeys), <<>>))
                      /\ outstanding' = { Call("analysis", <<>>, 0) }
                      /\ pc' = "analysis_call"
                      /\ UNCHANGED << events, ended, httpStatus, body, failedIn, st >>
FilterReturns(reply) ==
  /\ pc = "filtering"
  /\ UNCHANGED << envVars, req, searchCache, s >>
  /\ AfterFilter(h.papers, FilterResult(h.papers, reply), <<>>)

(***************************************************************************)
(* generateAnswerWithCitations of /question (part_003:693-774).            *)
(***************************************************************************)
AnalysisReturns(ok) ==
  /\ pc = "analysis_call"
  /\ UNCHANGED << envVars, req, searchCache, s, st >>
  /\ IF ok
       THEN /\ h' = [h EXCEPT !.paperAnalysis = AnalysisReplyText]
            /\ callLog' = Append(callLog,
                            Logged("answer", <<>>, KeysOf(h.citationsWithKeys), AnalysisReplyText))
            /\ outstanding' = { Call("answer", <<>>, 0) }
            /\ pc' = "answer_call"
            /\ UNCHANGED << events, ended, httpStatus, body, failedIn >>
       ELSE /\ Fail("analysis", <<>>)
            /\ UNCHANGED << callLog, h >>
AnswerReturns(ok) ==
  /\ pc = "answer_call"
  /\ UNCHANGED << envVars, req, searchCache, s, st, callLog, h >>
  /\ IF ok
       THEN Respond(ResearchResult(AnswerReplyText, h.filteredCitations, h.paperAnalysis,
                                   h.citationsWithKeys))
       ELSE Fail("answer generation", <<>>)

(***************************************************************************)
(* streamOpenAIResponse (part_003:962-1089) and what the handler does with *)
(* the text it resolves to (part_003:1244-1256, 1435-1491).                *)
(***************************************************************************)
FailStageOf(stage) == IF stage = "analyzing_papers" THEN "analysis" ELSE "answer generation"
\* streamOpenAIResponse resolved to `text`; `written` are the events the
\* resolving callback wrote first
AfterStage(text, written) ==
  IF h.canAnswer
    THEN /\ events' = events \o written \o << CompleteEv(DirectResult(text)) >>
         /\ ended' = TRUE
         /\ outstanding' = {}
         /\ pc' = "done"
         /\ UNCHANGED << h, st, callLog, httpStatus, body, failedIn >>
  ELSE IF st.stage = "analyzing_papers"
    THEN /\ h' = [h EXCEPT !.paperAnalysis = text]
         /\ events' = events \o written
                        \o << Ev("stage_update", "answer_generation"),
                              Ev("streaming", "generating_answer") >>
         /\ callLog' = Append(callLog, Logged("stream", <<>>, KeysOf(h.citationsWithKeys), text))
         /\ outstanding' = { Call("stream_req", <<>>, 0) }
         /\ st' = [InitSt EXCEPT !.stage = "generating_answer"]
         /\ pc' = "stream_req"
         /\ UNCHANGED << ended, httpStatus, body, failedIn >>
  ELSE /\ events' = events \o written
                      \o << CompleteEv(ResearchResult(text, h.filteredCitations,
                                                      h.paperAnalysis, h.citationsWithKeys)) >>
       /\ ended' = TRUE
       /\ outstanding' = {}
       /\ pc' = "done"
       /\ UNCHANGED << h, st, callLog, httpStatus, body, failedIn >>
\* the request with stream: true is answered, or fails and the non-streaming
\* request is sent instead
StreamReqReturns(ok) ==
  /\ pc = "stream_req"
  /\ UNCHANGED << envVars, req, searchCache, s, h, events, ended, httpStatus, body, failedIn >>
  /\ IF ok
       THEN /\ \E script \in ScriptsFor(st.stage) :
                 st' = [st EXCEPT !.script = script, !.remaining = WireOf(script)]
            /\ outstanding' = { Call("stream", <<>>, 0) }
            /\ pc' = "streaming"
            /\ callLog' = callLog
       ELSE /\ callLog' = Append(callLog, Logged("fallback", <<>>, <<>>, <<>>))
            /\ outstanding' = { Call("fallback", <<>>, 0) }
            /\ pc' = "fallback"
            /\ st' = st
\* a 'data' event delivers the next k byte groups
StreamData(k) ==
  /\ pc = "streaming"
  /\ k \in 1..Len(st.remaining)
  /\ UNCHANGED << envVars, req, searchCache, s, h, ended, httpStatus, body, failedIn,
                  callLog, outstanding, pc >>
  /\ LET tokens == ChunkTokens(Take(st.remaining, k))
     IN /\ st' = [st EXCEPT !.remaining = Drop(st.remaining, k),
                            !.completeResponse = st.completeResponse \o tokens]
        /\ events' = events \o [i \in 1..Len(tokens) |-> TokenEv(st.stage, tokens[i])]
\* the 'end' event
StreamEnd ==
  /\ pc = "streaming"
  /\ st.remaining = <<>>
  /\ UNCHANGED << envVars, req, searchCache, s >>
  /\ AfterStage(st.completeResponse, << ChunkCompleteEv(st.stage, st.completeResponse) >>)
\* the 'error' event
StreamError ==
  /\ pc = "streaming"
  /\ UNCHANGED << envVars, req, searchCache, s, h, st, callLog >>
  /\ Fail(FailStageOf(st.stage), <<>>)
FallbackReturns(ok) ==
  /\ pc = "fallback"
  /\ UNCHANGED << envVars, req, searchCache, s >>
  /\ IF ok
       THEN AfterStage(FallbackTextFor(st.stage), <<>>)
       ELSE /\ Fail(FailStageOf(st.stage), <<>>)
            /\ UNCHANGED << h, st, callLog >>

(***************************************************************************)
(* The clock.                                                              *)
(***************************************************************************)
Tick ==
  /\ pc = "idle"
  /\ ticks < MaxTicks
  /\ ticks' = ticks + 1
  /\ now' = now + TickStep
  /\ UNCHANGED << pc, req, hasCoreKey, searchCache, events, ended, httpStatus,
                  body, callLog, outstanding, h, s, st, failedIn, fn >>

Next ==
  \/ \E ep \in Endpoints, q \in Questions : Receive(ep, q)
  \/ \E reply \in EvalReplies : EvalReturns(reply)
  \/ SearchCacheCheck
  \/ \E ok \in BOOLEAN : TranslateReturns(ok)
  \/ \E reply \in ExpandReplies : ExpandReturns(reply)
  \/ \E c \in outstanding, outcome \in {"ok", "error", "429"} : AdapterReturns(c, outcome)
  \/ PapersReturned
  \/ \E reply \in FilterReplies : FilterReturns(reply)
  \/ \E ok \in BOOLEAN : AnalysisReturns(ok)
  \/ \E ok \in BOOLEAN : AnswerReturns(ok)
  \/ \E ok \in BOOLEAN : StreamReqReturns(ok)
  \/ \E k \in 1..Len(st.remaining) : StreamData(k)
  \/ StreamEnd
  \/ StreamError
  \/ \E ok \in BOOLEAN : FallbackReturns(ok)
  \/ Tick

Spec == Init /\ [][Next]_vars

(***************************************************************************)
(* Vocabulary of the properties.                                           *)
(***************************************************************************)
\* a /stream-question request with a question is being served or has been
StreamRun == req.endpoint = "stream" /\ req.question # <<>>
LastEvent == events[Len(events)]
\* positions of the terminal events written so far
Terminals == { i \in 1..Len(events) : events[i].status \in {"complete", "error"} }
StageUpdates == SelectSeq(events, LAMBDA e : e.status = "stage_update")
StageNames == [i \in 1..Len(StageUpdates) |-> StageUpdates[i].stage]
CallsOfKind(kinds) == { i \in 1..Len(callLog) : callLog[i].kind \in kinds }
\* the tokens forwarded for a stage, in the order written
StageTokens(stage) ==
  LET written == SelectSeq(events, LAMBDA e : e.status = "token" /\ e.stage = stage)
  IN [i \in 1..Len(written) |-> written[i].token]
\* the run went down the research path and completed
ResearchRun ==
  /\ StreamRun /\ pc = "done"
  /\ LastEvent.status = "complete" /\ LastEvent.result.kind = "research"

(***************************************************************************)
(* Properties of the /stream-question and /question handlers.              *)
(***************************************************************************)
\* C1: a /stream-question run for a non-empty question writes at most one
\* terminal event (complete or error); the response is ended exactly when that
\* event has been written, in the same step, with the terminal event as the
\* last event; the handler is done exactly then, and once the response is
\* ended no further event is written.
C1_OneTerminalEvent ==
  /\ [](StreamRun =>
          /\ Cardinality(Terminals) <= 1
          /\ (ended <=> Terminals # {})
          /\ (Terminals # {} => Terminals = {Len(events)})
          /\ (pc = "done" <=> ended))
  /\ [][ended => (ended' /\ events' = events)]_vars
\* a run that forwarded tokens and then failed
C1_Witness ==
  /\ StreamRun /\ ended
  /\ LastEvent.status = "error"
  /\ \E i \in 1..Len(events) : events[i].status = "token"

\* C2: a completed research-path run wrote the stage_update events evaluation,
\* paper_retrieval, paper_analysis, answer_generation, in this order and once
\* each, and then the complete event; outside the adapter fan-out at most one
\* call is outstanding, inside it only adapter calls are, and a step that
\* starts new calls leaves none of the earlier calls outstanding.
C2_StagesInOrder ==
  /\ [](ResearchRun =>
          /\ StageNames = << "evaluation", "paper_retrieval", "paper_analysis",
                             "answer_generation" >>
          /\ Terminals = {Len(events)})
  /\ [](StreamRun =>
          IF pc \in {"primary", "alternates"}
            THEN \A c \in outstanding : c.kind \in {"ss", "core"}
            ELSE Cardinality(outstanding) <= 1)
  /\ [][(req'.endpoint = "stream" /\ Len(callLog') > Len(callLog)) =>
          (Cardinality(outstanding) <= 1 /\ outstanding' \cap outstanding = {})]_vars
\* a research run in which no call failed and the filter chose five papers
C2_Witness ==
  /\ ResearchRun
  /\ CallsOfKind({"fallback"}) = {}
  /\ CallsOfKind({"filter"}) # {}
  /\ Len(LastEvent.result.citationMapping) = FilterMaxPapers
  /\ StageTokens("analyzing_papers") = <<"t1", "t2">>

C4_NoPapers ==
  /\ [](pc = "search_done" =>
          /\ CallsOfKind({"filter", "stream", "fallback", "analysis", "answer"}) = {}
          /\ \A i \in 1..Len(StageNames) :
               StageNames[i] \notin {"paper_analysis", "answer_generation"})
  /\ [][(pc = "search_done" /\ s.result = <<>>) =>
          /\ pc' = "done" /\ ended' /\ failedIn' = ""
          /\ callLog' = callLog /\ outstanding' = {}
          /\ IF req.endpoint \in {"stream", "getsse"}
               THEN /\ Len(events') > Len(events)
                    /\ SubSeq(events', 1, Len(events)) = events
                    /\ events'[Len(events')].status = "complete"
                    /\ events'[Len(events')].result.citations = <<>>
                    /\ events'[Len(events')].result.answer # <<>>
                    /\ \A i \in (Len(events) + 1)..Len(events') :
                         /\ events'[i].status # "error"
                         /\ events'[i].stage \notin {"paper_analysis", "answer_generation"}
               ELSE /\ httpStatus' = 200
                    /\ body'.citations = <<>>
                    /\ body'.answer # <<>>]_vars
\* a streaming run whose sources all came back empty-handed
C4_Witness ==
  /\ StreamRun /\ pc = "done"
  /\ LastEvent.status = "complete" /\ LastEvent.result.kind = "nopapers"
  /\ CallsOfKind({"ss"}) # {}

\* C5: when the evaluator's reply is not JSON the request has failed in the
\* evaluation: the evaluation call is the only call the request ever made,
\* nothing is outstanding, and the caller has one error event as the only
\* terminal event (SSE) or the status 500 (JSON).
C5_EvaluatorNotJson ==
  h.decision = "badjson" =>
    /\ pc = "done" /\ ended /\ failedIn = "evaluation"
    /\ callLog = << Logged("eval", <<>>, <<>>, <<>>) >>
    /\ outstanding = {}
    /\ IF req.endpoint \in {"stream", "getsse"}
         THEN /\ Terminals = {Len(events)}
              /\ LastEvent.status = "error"
              /\ httpStatus = 0
         ELSE /\ httpStatus = 500
              /\ events = <<>>
\* the streaming endpoint after a reply that is not JSON
C5_Witness == h.decision = "badjson" /\ req.endpoint = "stream" /\ Len(events) = 3

\* C6: every token event follows the 'streaming' event of its stage and
\* precedes the stage's chunk_complete event, and once all increments of a
\* stage have arrived the tokens written for it are the non-empty increments
\* of the provider, in their order.
C6_TokensInArrivalOrder ==
  /\ \A i \in 1..Len(events) :
       events[i].status = "token" =>
         /\ \E j \in 1..(i - 1) : events[j] = Ev("streaming", events[i].stage)
         /\ \A j \in 1..(i - 1) :
              ~(events[j].status = "chunk_complete" /\ events[j].stage = events[i].stage)
  /\ (pc = "streaming" /\ st.remaining = <<>>) =>
       StageTokens(st.stage) = Increments(st.script)

\* C7: in a /stream-question run, before the answer_generation stage event is
\* written a chunk_complete event of the analysis stage has been written whose
\* content is the analysis text, and before the complete event of a generated
\* answer a chunk_complete event of the answer stage has been written whose
\* content is the answer; the content is the concatenation of the stage's tokens.
C7_ChunkCompleteBeforeAdvance ==
  StreamRun =>
    \A i \in 1..Len(events) :
      /\ events[i] = Ev("stage_update", "answer_generation") =>
           /\ \E j \in 1..(i - 1) :
                events[j] = ChunkCompleteEv("analyzing_papers", h.paperAnalysis)
           /\ h.paperAnalysis = StageTokens("analyzing_papers")
      /\ (events[i].status = "complete" /\ events[i].result.kind \in {"direct", "research"}) =>
           /\ \E j \in 1..(i - 1) :
                events[j] = ChunkCompleteEv("generating_answer", events[i].result.answer)
           /\ events[i].result.answer = StageTokens("generating_answer")

\* the text a stage accumulated: what its chunk_complete event bundles, or,
\* when the stage ran on the non-streaming call, what that call returned
StageText(stage) ==
  IF \E i \in 1..Len(events) : events[i].status = "chunk_complete" /\ events[i].stage = stage
    THEN (CHOOSE e \in Range(events) : e.status = "chunk_complete" /\ e.stage = stage).content
    ELSE FallbackTextFor(stage)
\* the streamed completions the run started: the analysis, then the answer
StreamCalls == SelectSeq(callLog, LAMBDA c : c.kind = "stream")

\* C8: in the complete event of a research-path run the answer is the text of
\* the answer stage and paperAnalysis is the text of the analysis stage (which
\* is also the analysis put into the answer prompt); citations and
\* citationMapping have one entry per paper the filter returned, in the
\* filter's order, and citationMapping[i].key is the key that the analysis
\* prompt and the answer prompt carry for paper i.
C8_CompleteCarriesStageResults ==
  ResearchRun =>
    LET result == LastEvent.result
        n == Len(h.filteredPapers)
    IN /\ result.answer = StageText("generating_answer")
       /\ result.paperAnalysis = StageText("analyzing_papers")
       /\ Len(StreamCalls) = 2
       /\ StreamCalls[2].text = result.paperAnalysis
       /\ Len(result.citations) = n
       /\ Len(result.citationMapping) = n
       /\ Len(StreamCalls[1].keys) = n
       /\ Len(StreamCalls[2].keys) = n
       /\ \A i \in 1..n :
            /\ result.citations[i] = MakeCitation(h.filteredPapers[i])
            /\ result.citationMapping[i].title = result.citations[i].title
            /\ result.citationMapping[i].authors = h.filteredPapers[i].authors
            /\ result.citationMapping[i].key = StreamCalls[1].keys[i]
            /\ result.citationMapping[i].key = StreamCalls[2].keys[i]
\* a research run in which the filter reordered the papers and two of them
\* got different keys
C8_Witness ==
  /\ ResearchRun
  /\ Len(h.filteredPapers) = FilterMaxPapers
  /\ h.filteredPapers # Take(h.papers, FilterMaxPapers)
  /\ \E i, j \in 1..Len(LastEvent.result.citationMapping) :
       LastEvent.result.citationMapping[i].key # LastEvent.result.citationMapping[j].key
  /\ LastEvent.result.answer = <<"u1">>

\* C9 (as the code has it): whatever stage threw, the error event of a
\* /stream-question run is the last event and its stage field is the constant
\* "error"; failures of different stages give the same stage value.
C9_ErrorStageIsConstant ==
  (StreamRun /\ failedIn # "") =>
    /\ LastEvent.status = "error"
    /\ LastEvent.stage = "error"
\* C9 (as stated): the error event's stage field names the stage that threw.
C9_ErrorNamesStage ==
  (StreamRun /\ failedIn # "") =>
    /\ LastEvent.status = "error"
    /\ LastEvent.stage = failedIn
\* the analysis stream broke off
C9_Witness ==
  /\ StreamRun /\ failedIn = "analysis"
  /\ LastEvent.status = "error"

\* C10: a request without a question is answered in one step with status 400:
\* no event is written, no call is made or outstanding, no handler local is
\* touched, and the cache is what it was.
C10_MissingQuestion ==
  /\ []((req.question = <<>> /\ pc # "idle") =>
          /\ pc = "done" /\ ended /\ httpStatus = 400
          /\ events = <<>> /\ callLog = <<>> /\ outstanding = {}
          /\ h = InitH /\ s = InitS /\ st = InitSt)
  /\ [][(pc = "idle" /\ pc' # "idle" /\ req'.question = <<>>) =>
          (httpStatus' = 400 /\ searchCache' = searchCache)]_vars
\* POST /question without a question, with a filled cache
C10_Witness ==
  /\ req.question = <<>> /\ req.endpoint = "post" /\ pc = "done"
  /\ searchCache # {}

(***************************************************************************)
(* searchPapers of the four-source server (part_001:111-165): arXiv,       *)
(* PubMed, Semantic Scholar and CORE are searched for every search term in *)
(* one Promise.all.  It uses pc, s, callLog and outstanding.               *)
(***************************************************************************)
\* largest limit searchPapers is called with
MaxFourLimit == 3
FourAdapters == << "arxiv", "pubmed", "ss", "core" >>
FourPaper(title, year, citationCount, source) ==
  [title |-> title, abstract |-> NoAbstract, year |-> year, citationCount |-> citationCount,
   authors |-> <<"Unknown">>, source |-> source]
\* the records a source holds for a term, as its adapter maps them
FourCatalogue(kind, term) ==
  CASE kind = "arxiv" ->
         IF term = AltTerm
           THEN << FourPaper(<<"b", "1">>, "2024", 0, "arXiv") >>
           ELSE << FourPaper(<<"a", "0">>, "2024", 0, "arXiv"),
                   FourPaper(<<"a", "1">>, "2019", 0, "arXiv"),
                   FourPaper(<<"c", "0">>, "N/A", 0, "arXiv") >>
    [] kind = "pubmed" ->
         IF term = AltTerm
           THEN <<>>
           ELSE << FourPaper(<<"A", "0", "!">>, "2024", 0, "PubMed"),
                   FourPaper(<<"b", "0">>, "2026", 0, "PubMed") >>
    [] kind = "ss" ->
         IF term = AltTerm
           THEN << FourPaper(<<"b", "1">>, "2024", 7, "Semantic Scholar"),
                   FourPaper(<<"c", "1">>, "Unknown", 7, "Semantic Scholar") >>
           ELSE << FourPaper(<<"b", "0">>, "2026", 3, "Semantic Scholar"),
                   FourPaper(<<"No title available">>, "2019", 200, "Semantic Scholar") >>
    [] OTHER ->
         IF term = AltTerm
           THEN << FourPaper(<<"0", "1">>, "2019", 0, "CORE") >>
           ELSE << FourPaper(<<"a", "0">>, "Unknown", 0, "CORE"),
                   FourPaper(<<"0", "0">>, "2024", 0, "CORE") >>
\* what expandSearchTerms resolves to: the query alone (also on any error), or
\* the query with an alternative
FourTermLists(query) == { <<query>>, <<query, AltTerm>> }
FourCall(kind, term, limit) == [kind |-> kind, term |-> term, limit |-> limit]
\* Math.ceil(limit/searchTerms.length)
FourLimit(limit, searchTerms) == CeilDiv(limit, Len(searchTerms))
\* the calls pushed to searchPromises, in order
FourCalls(searchTerms, limit) ==
  Flatten([t \in 1..Len(searchTerms) |->
     [k \in 1..Len(FourAdapters) |->
        FourCall(FourAdapters[k], searchTerms[t], FourLimit(limit, searchTerms))]])
\* what the promise of a call resolved to
FourSettled(returned, c) ==
  (CHOOSE r \in returned : r.kind = c.kind /\ r.term = c.term).list
\* a variant of FourMerge that loses the last promise's list
FourMerge_LosesLast(returned, calls) ==
  Flatten([i \in 1..(Len(calls) - 1) |-> FourSettled(returned, calls[i])])
\* searchResults.forEach(papers => allPapers = [...allPapers, ...papers])
FourMerge(returned, calls) ==
  Flatten([i \in 1..Len(calls) |-> FourSettled(returned, calls[i])])
\* parseInt(year) || 0
FourYear(y) == IF y \in NumericYears THEN YearNumber(y) ELSE 0
\* uniquePapers.sort(...): citation count, then year, both descending
FourSort(papers) ==
  StableSortDesc(papers,
    [i \in 1..Len(papers) |-> papers[i].citationCount * 10000 + FourYear(papers[i].year)])
FourInit ==
  /\ pc = "idle"
  /\ req = [endpoint |-> "stream", question |-> <<>>, closed |-> FALSE]
  /\ ticks = 0 /\ now = 0 /\ hasCoreKey = TRUE /\ searchCache = {}
  /\ events = <<>> /\ ended = FALSE /\ httpStatus = 0 /\ body = NoResult
  /\ callLog = <<>> /\ outstanding = {}
  /\ h = InitH /\ s = InitS /\ st = InitSt /\ failedIn = "" /\ fn = InitFn
fourFrame == << req, ticks, now, hasCoreKey, searchCache, events, ended, httpStatus, body,
                h, st, failedIn, fn >>
\* searchPapers(query, limit) is called and awaits expandSearchTerms
FourSearchPapers(query, limit) ==
  /\ pc = "idle"
  /\ s' = [InitS EXCEPT !.query = query, !.limit = limit]
  /\ callLog' = << FourCall("expand", query, 0) >>
  /\ outstanding' = { FourCall("expand", query, 0) }
  /\ pc' = "four_expanding"
  /\ UNCHANGED fourFrame
\* expandSearchTerms resolves and the loop starts every search
FourExpandReturns(searchTerms) ==
  /\ pc = "four_expanding"
  /\ searchTerms \in FourTermLists(s.query)
  /\ s' = [s EXCEPT !.searchTerms = searchTerms]
  /\ callLog' = callLog \o FourCalls(searchTerms, s.limit)
  /\ outstanding' = Range(FourCalls(searchTerms, s.limit))
  /\ pc' = "four_searching"
  /\ UNCHANGED fourFrame
\* one adapter call settles: with its records, or with [] when it failed
\* (the adapter's own catch, or the .catch of searchPapers); the last one
\* resolves the Promise.all and searchPapers runs to its return
FourAdapterReturns(c, ok) ==
  /\ pc = "four_searching"
  /\ c \in outstanding
  /\ UNCHANGED fourFrame
  /\ callLog' = callLog
  /\ outstanding' = outstanding \ {c}
  /\ LET list == IF ok THEN Take(FourCatalogue(c.kind, c.term), c.limit) ELSE <<>>
         returned == s.returned
                       \cup {[kind |-> c.kind, term |-> c.term, list |-> list, ok |-> ok]}
     IN IF outstanding = {c}
          THEN LET allPapers == FourMerge(returned, FourCalls(s.searchTerms, s.limit))
                   sortedPapers == FourSort(removeDuplicatePapers(allPapers))
               IN /\ s' = [s EXCEPT !.returned = returned, !.allResults = allPapers,
                                    !.result = Take(sortedPapers, s.limit)]
                  /\ pc' = "four_done"
          ELSE /\ s' = [s EXCEPT !.returned = returned]
               /\ pc' = pc
FourNext ==
  \/ \E limit \in 1..MaxFourLimit : FourSearchPapers(PrimaryQuery, limit)
  \/ \E searchTerms \in FourTermLists(s.query) : FourExpandReturns(searchTerms)
  \/ \E c \in outstanding, ok \in BOOLEAN : FourAdapterReturns(c, ok)
FourSpec == FourInit /\ [][FourNext]_vars

\* the (term, adapter) pairs of the call in progress
FourPairs == { <<t, k>> : t \in Range(s.searchTerms), k \in Range(FourAdapters) }
FourStarted == SelectSeq(callLog, LAMBDA c : c.kind # "expand")
\* C11: once the search terms are known, the call log holds exactly one search
\* call for every (term, adapter) pair, each with the limit
\* ceil(limit / number of terms); all of them were started in the step that
\* started the first, so every call is outstanding or settled; and whichever
\* calls fail, searchPapers returns, the failed calls add nothing, and the
\* list handed to removeDuplicatePapers holds every record of every
\* successful call and nothing else.
C11_FanOut ==
  /\ [](pc \in {"four_searching", "four_done"} =>
          /\ Len(FourStarted) = Cardinality(FourPairs)
          /\ \A p \in FourPairs :
               Cardinality({ i \in 1..Len(FourStarted) :
                               FourStarted[i].term = p[1] /\ FourStarted[i].kind = p[2] }) = 1
          /\ \A i \in 1..Len(FourStarted) :
               /\ <<FourStarted[i].term, FourStarted[i].kind>> \in FourPairs
               /\ FourStarted[i].limit * Len(s.searchTerms) >= s.limit
               /\ (FourStarted[i].limit - 1) * Len(s.searchTerms) < s.limit
          /\ \A p \in FourPairs :
               \/ \E c \in outstanding : c.term = p[1] /\ c.kind = p[2]
               \/ \E r \in s.returned : r.term = p[1] /\ r.kind = p[2]
          /\ (pc = "four_done" <=> outstanding = {}))
  /\ [](pc = "four_done" =>
          /\ \A r \in s.returned :
               IF r.ok
                 THEN /\ r.list = Take(FourCatalogue(r.kind, r.term), Len(r.list))
                      /\ Len(r.list) = Min(Len(FourCatalogue(r.kind, r.term)),
                                           CeilDiv(s.limit, Len(s.searchTerms)))
                      /\ \A i \in 1..Len(r.list) : r.list[i] \in Range(s.allResults)
                 ELSE r.list = <<>>
          /\ \A i \in 1..Len(s.allResults) :
               \E r \in s.returned : r.ok /\ s.allResults[i] \in Range(r.list)
          /\ Len(s.allResults)
               = Len(Flatten([i \in 1..Len(FourStarted) |->
                                FourSettled(s.returned, FourStarted[i])])))
  /\ [][pc = "four_expanding" =>
          (outstanding' = Range(FourStarted') /\ s'.returned = {})]_vars
\* two terms, the last call and another one failed, others brought records
C11_Witness ==
  /\ pc = "four_done"
  /\ Len(s.searchTerms) = 2
  /\ \E r \in s.returned : ~r.ok /\ r.kind = "core" /\ r.term = AltTerm
  /\ \E r \in s.returned : ~r.ok /\ r.kind = "arxiv"
  /\ \E r \in s.returned : r.ok /\ r.list # <<>>
  /\ s.limit = MaxFourLimit

\* every adapter call of the search that just finished has failed
TotalSearchFailure == pc = "search_done" /\ s.settled > 0 /\ s.failed = s.settled
\* C12 (as the code has it): when every adapter call of a search failed,
\* searchPapers has resolved to the empty list and cached it, and the next
\* step ends the request without failure: with a complete event that carries
\* the no-papers result (SSE) or with status 200 and that result (JSON).
C12_TotalFailureCompletes ==
  /\ [](TotalSearchFailure =>
          /\ s.result = <<>>
          /\ \E e \in searchCache : e.key = s.cacheKey /\ e.results = <<>> /\ e.timestamp = now)
  /\ [][TotalSearchFailure =>
          /\ pc' = "done" /\ ended' /\ failedIn' = ""
          /\ IF req.endpoint \in {"stream", "getsse"}
               THEN /\ events'[Len(events')] = CompleteEv(NoPapersResult)
                    /\ \A i \in 1..Len(events') : events'[i].status # "error"
               ELSE /\ httpStatus' = 200
                    /\ body' = NoPapersResult]_vars
\* C12 (as stated): when every adapter call of a search failed, the request
\* ends failed: with an error event (SSE) or with status 500 (JSON).
C12_TotalFailureFails ==
  [][TotalSearchFailure =>
       /\ pc' = "done" /\ failedIn' # ""
       /\ IF req.endpoint \in {"stream", "getsse"}
            THEN events'[Len(events')].status = "error"
            ELSE httpStatus' = 500]_vars
\* the streaming endpoint after both sources failed for both terms
C12_Witness ==
  /\ TotalSearchFailure
  /\ s.settled = 4
  /\ req.endpoint = "stream"

\* the lookup of searchPapers finds an empty list younger than the TTL
EmptyListCached ==
  /\ pc = "search_check"
  /\ \E e \in searchCache :
       /\ e.key = Trim(ToLower(s.query))
       /\ e.results = <<>>
       /\ now - e.timestamp < CACHE_TTL
\* searchPapers returned the empty list without a call to a source
ServedEmptyFromCache ==
  pc = "search_done" /\ s.result = <<>> /\ CallsOfKind({"ss", "core"}) = {}
\* C39: a search whose adapter calls all came back empty or failed stores the
\* empty list; a lookup that finds an empty list younger than the TTL returns
\* it without a call to a source; and the request then ends with the
\* no-papers result.
C39_EmptyListServed ==
  /\ []((pc = "search_done" /\ s.settled > 0 /\ s.result = <<>>) =>
          \E e \in searchCache : e.key = s.cacheKey /\ e.results = <<>> /\ e.timestamp = now)
  /\ [][EmptyListCached =>
          /\ pc' = "search_done" /\ s'.result = <<>>
          /\ callLog' = callLog /\ outstanding' = {}
          /\ searchCache' = searchCache]_vars
  /\ [][ServedEmptyFromCache =>
          /\ pc' = "done"
          /\ IF req.endpoint \in {"stream", "getsse"}
               THEN events'[Len(events')] = CompleteEv(NoPapersResult)
               ELSE httpStatus' = 200 /\ body' = NoPapersResult]_vars
\* a streaming request ended with the no-papers result on an empty list of
\* an earlier search, no source having been asked
C39_Witness ==
  /\ pc = "done" /\ req.endpoint = "stream"
  /\ events # <<>> /\ LastEvent = CompleteEv(NoPapersResult)
  /\ CallsOfKind({"ss", "core", "expand"}) = {}
  /\ \E e \in searchCache : e.results = <<>> /\ now - e.timestamp < CACHE_TTL

\* the step deletes the entry of the key looked up, which has reached the TTL
ExpiryStep ==
  /\ pc = "search_check"
  /\ ~CacheFresh(Trim(ToLower(s.query)))
  /\ searchCache' = {e \in searchCache : e.key # Trim(ToLower(s.query))}
\* the step is the last one of a searchPapers run and stores the list the run
\* returns, ranked and cut, under the key of the run
FinalWriteStep ==
  /\ pc \in {"primary", "alternates"}
  /\ pc' = "search_done"
  /\ outstanding' = {}
  /\ s'.result = RankedResults(s'.allResults, s'.englishQuery, s'.limit)
  /\ searchCache' = {e \in searchCache : e.key # s'.cacheKey}
                      \cup {[key |-> s'.cacheKey, results |-> s'.result, timestamp |-> now]}
\* C32: the cache changes only when a lookup deletes an expired entry and when
\* a searchPapers run stores, as its last step, the ranked list it returns; a
\* run that has not reached that step has stored nothing, and no later step of
\* a request (filtering, formatting, citation building) touches the cache, so
\* the papers a request works with stay equal to the stored list.
C32_EntriesAreFinalLists ==
  /\ [][searchCache' # searchCache => (ExpiryStep \/ FinalWriteStep)]_vars
  /\ [](pc = "search_done" => /\ CacheHas(s.cacheKey)
                               /\ CacheGet(s.cacheKey).results = s.result)
  /\ [](h.papers # <<>> => /\ CacheHas(Trim(ToLower(h.queryWord)))
                            /\ CacheGet(Trim(ToLower(h.queryWord))).results = h.papers)
\* a request served from the cache was filtered and answered, and the stored
\* list is still the one it was served
C32_Witness ==
  /\ pc = "done"
  /\ CallsOfKind({"ss", "core"}) = {}
  /\ h.papers # <<>>
  /\ h.filteredPapers # <<>> /\ h.filteredPapers # h.papers
  /\ h.citationsWithKeys # <<>>
  /\ CacheGet(Trim(ToLower(h.queryWord))).results = h.papers

(***************************************************************************)
(* searchPapers called again and again in one process (part_003:67-179),   *)
(* with the clock advancing between the calls.                             *)
(***************************************************************************)
\* the queries of the calls: two spellings of one query, and another query
SearchQueries == { PrimaryQuery, <<" ", "A", "b", "TAB">>, ForeignQuery }
\* the process runs without a CORE_API_KEY: Semantic Scholar is the only source
SearchInit ==
  /\ pc = "idle"
  /\ req = [endpoint |-> "stream", question |-> <<>>, closed |-> FALSE]
  /\ ticks = 0 /\ now = 0 /\ hasCoreKey = FALSE /\ searchCache = {}
  /\ events = <<>> /\ ended = FALSE /\ httpStatus = 0 /\ body = NoResult
  /\ callLog = <<>> /\ outstanding = {}
  /\ h = InitH /\ s = InitS /\ st = InitSt /\ failedIn = "" /\ fn = InitFn
\* searchPapers(query, limit, 3) is called
SearchCall(query, limit) ==
  /\ pc = "idle"
  /\ s' = [InitS EXCEPT !.query = query, !.limit = limit]
  /\ callLog' = <<>>
  /\ outstanding' = {}
  /\ pc' = "search_check"
  /\ UNCHANGED << envVars, req, searchCache, events, ended, httpStatus, body, h, st, failedIn >>
\* the caller has the list
SearchReturn ==
  /\ pc = "search_done"
  /\ s' = InitS
  /\ callLog' = <<>>
  /\ outstanding' = {}
  /\ pc' = "idle"
  /\ UNCHANGED << envVars, req, searchCache, events, ended, httpStatus, body, h, st, failedIn >>
SearchNext ==
  \/ \E query \in SearchQueries : SearchCall(query, StreamLimit)
  \/ SearchCacheCheck
  \/ \E ok \in BOOLEAN : TranslateReturns(ok)
  \/ \E reply \in ExpandReplies : ExpandReturns(reply)
  \/ \E c \in outstanding, outcome \in {"ok", "error", "429"} : AdapterReturns(c, outcome)
  \/ SearchReturn
  \/ Tick
SearchSpec == SearchInit /\ [][SearchNext]_vars

\* the cache holds an entry for the key that is younger than the TTL
FreshEntry(key) ==
  \E e \in searchCache : e.key = key /\ now - e.timestamp < CACHE_TTL
\* C13: the lookup of searchPapers returns the cached list, starting no call
\* and leaving the cache alone, exactly when the cache holds an entry under
\* the lower-cased, trimmed query whose age is below CACHE_TTL; otherwise it
\* removes the entry of that key, if any, and starts a call; so a list returned
\* without any call is the list of an entry younger than the TTL, and a list
\* returned after calls is the one just stored.
C13_CacheHitIffFresh ==
  /\ [][pc = "search_check" =>
          LET key == Trim(ToLower(s.query))
          IN IF FreshEntry(key)
               THEN /\ pc' = "search_done"
                    /\ callLog' = <<>> /\ outstanding' = {}
                    /\ searchCache' = searchCache
                    /\ \E e \in searchCache : e.key = key /\ s'.result = e.results
               ELSE /\ pc' \in {"translating", "expanding"}
                    /\ Len(callLog') = 1
                    /\ callLog'[1].kind \in {"translate", "expand"}
                    /\ searchCache' = { e \in searchCache : e.key # key }]_vars
  /\ [](pc = "search_done" =>
          \E e \in searchCache :
            /\ e.key = s.cacheKey /\ e.results = s.result
            /\ now - e.timestamp < CACHE_TTL
            /\ (callLog # <<>> => e.timestamp = now))
  /\ [](pc \in {"search_check", "search_done"} =>
          \A e1, e2 \in searchCache : e1.key = e2.key => e1 = e2)
\* a call spelled differently from the one that filled the cache is served
\* from the cache, half a TTL later
C13_Witness ==
  /\ pc = "search_done" /\ callLog = <<>>
  /\ s.query = <<" ", "A", "b", "TAB">>
  /\ s.cacheKey = PrimaryQuery
  /\ s.result # <<>>
  /\ \E e \in searchCache : e.key = PrimaryQuery /\ now - e.timestamp = TickStep

(***************************************************************************)
(* removeDuplicatePapers called on its own (part_003:473-508), once and    *)
(* then again on its own result.  It uses pc and fn.                       *)
(***************************************************************************)
\* longest input list
MaxDedupLen == 3
\* titles: spellings of "ab", a part of it, a title of two words, titles that
\* normalise to the empty string, an unrelated title
DedupTitles ==
  { <<"a", "b">>, <<"A", " ", "b", "!">>, <<" ", "A", "B", "TAB">>, <<"a">>,
    <<"a", " ", "TAB", "b">>, <<"!">>, <<"E9">>, <<"c", "0">> }
\* the input lists; the citation count tells the records of a list apart
DedupInputs ==
  UNION { { [i \in 1..n |-> FourPaper(titles[i], "2024", i, "arXiv")] :
              titles \in [1..n -> DedupTitles] } : n \in 0..MaxDedupLen }
pipelineVars == << req, ticks, now, hasCoreKey, searchCache, events, ended, httpStatus, body,
                   callLog, outstanding, h, s, st, failedIn >>
DedupInit ==
  /\ pc = "dedup_call"
  /\ fn \in { [InitFn EXCEPT !.papers = papers] : papers \in DedupInputs }
  /\ req = [endpoint |-> "stream", question |-> <<>>, closed |-> FALSE]
  /\ ticks = 0 /\ now = 0 /\ hasCoreKey = TRUE /\ searchCache = {}
  /\ events = <<>> /\ ended = FALSE /\ httpStatus = 0 /\ body = NoResult
  /\ callLog = <<>> /\ outstanding = {}
  /\ h = InitH /\ s = InitS /\ st = InitSt /\ failedIn = ""
\* uniquePapers = removeDuplicatePapers(papers)
DedupOnce ==
  /\ pc = "dedup_call"
  /\ fn' = [fn EXCEPT !.value = removeDuplicatePapers(fn.papers)]
  /\ pc' = "dedup_once"
  /\ UNCHANGED pipelineVars
\* removeDuplicatePapers(uniquePapers)
DedupTwice ==
  /\ pc = "dedup_once"
  /\ fn' = [fn EXCEPT !.again = removeDuplicatePapers(fn.value)]
  /\ pc' = "dedup_twice"
  /\ UNCHANGED pipelineVars
DedupNext == DedupOnce \/ DedupTwice
DedupSpec == DedupInit /\ [][DedupNext]_vars

\* what normalisation is meant to give: lower case, no punctuation, runs of
\* whitespace collapsed, trimmed
CanonicalTitle(title) == Trim(CollapseFrom(StripPunct(ToLower(title)), 1))
DedupReturned == pc \in {"dedup_once", "dedup_twice"}
\* the record at position i of the input is in the output
DedupKept(i) == fn.papers[i] \in Range(fn.value)
\* one of the two titles occurs inside the other
OneInsideOther(t1, t2) == Includes(t1, t2) \/ Includes(t2, t1)

\* C14: removeDuplicatePapers applied to its own result returns that result:
\* the same records in the same order.
C14_DedupIdempotent ==
  pc = "dedup_twice" => fn.again = fn.value
\* a list with a record whose normalised title is empty, of which a record was dropped
C14_Witness ==
  /\ pc = "dedup_twice"
  /\ Len(fn.value) = 2 /\ Len(fn.papers) = 3
  /\ \E i \in 1..Len(fn.value) : CanonicalTitle(fn.value[i].title) = <<>>
  /\ \E i \in 1..Len(fn.value) : CanonicalTitle(fn.value[i].title) # <<>>

\* C15 (as the code has it): in the output no two distinct records with
\* non-empty normalised titles have one title inside the other.
C15_NoSubstringPairNonEmpty ==
  DedupReturned =>
    \A i, j \in 1..Len(fn.value) :
      (i # j /\ CanonicalTitle(fn.value[i].title) # <<>>
             /\ CanonicalTitle(fn.value[j].title) # <<>>) =>
        ~Includes(CanonicalTitle(fn.value[i].title), CanonicalTitle(fn.value[j].title))
\* C15 (as stated): in the output no two distinct records have the normalised
\* title of one inside the normalised title of the other.
C15_NoSubstringPair ==
  DedupReturned =>
    \A i, j \in 1..Len(fn.value) :
      i # j => ~Includes(CanonicalTitle(fn.value[i].title), CanonicalTitle(fn.value[j].title))
\* a longer title came first, a part of it later, and the part was dropped
C15_Witness ==
  /\ pc = "dedup_once"
  /\ Len(fn.papers) = 3
  /\ fn.papers[1].title = <<"a", " ", "TAB", "b">>
  /\ fn.papers[2].title = <<"c", "0">>
  /\ fn.papers[3].title = <<"a">>
  /\ Len(fn.value) = 2

\* C16: of two input records whose titles are the same non-empty title up to
\* letter case, punctuation and whitespace, the later one is never kept, and
\* the earlier one is kept unless a record kept before it has a normalised
\* title that is inside its title or contains it.
C16_SameTitleKeepsEarlier ==
  DedupReturned =>
    \A i, j \in 1..Len(fn.papers) :
      (i < j /\ CanonicalTitle(fn.papers[i].title) = CanonicalTitle(fn.papers[j].title)
             /\ CanonicalTitle(fn.papers[i].title) # <<>>) =>
        /\ ~DedupKept(j)
        /\ \/ DedupKept(i)
           \/ \E k \in 1..(i - 1) :
                /\ DedupKept(k)
                /\ OneInsideOther(CanonicalTitle(fn.papers[k].title),
                                  CanonicalTitle(fn.papers[i].title))
\* "ab" in three spellings with an unrelated record first: the first spelling stays
C16_Witness ==
  /\ pc = "dedup_once"
  /\ Len(fn.papers) = 3
  /\ fn.papers[1].title = <<"A", " ", "b", "!">>
  /\ fn.papers[2].title = <<"c", "0">>
  /\ fn.papers[3].title = <<"a", " ", "TAB", "b">>
  /\ fn.value = << fn.papers[1], fn.papers[2] >>

(***************************************************************************)
(* filterRelevantPapers called on its own (part_003:1099-1187) with a list *)
(* and a maxPapers of the caller's choice.  It uses pc, fn, callLog and    *)
(* outstanding.                                                            *)
(***************************************************************************)
\* longest input list, and largest maxPapers
MaxFilterInput == 4
\* longest array in a reply
MaxReplyLen == 2
FilterInputs ==
  { [i \in 1..n |-> FourPaper(<<"c", "0">>, "2024", i, "arXiv")] : n \in 0..MaxFilterInput }
\* the provider fails, replies with text that is not JSON or not an array, or
\* with an array of numbers, in range or not
FilterCallReplies ==
  { [kind |-> "fail", ids |-> <<>>], [kind |-> "notjson", ids |-> <<>>],
    [kind |-> "notarray", ids |-> <<>>] }
  \cup UNION { { [kind |-> "array", ids |-> ids] : ids \in [1..n -> (-1)..MaxFilterInput] } :
               n \in 0..MaxReplyLen }
FilterInit ==
  /\ pc = "filter_call"
  /\ fn \in { [InitFn EXCEPT !.papers = papers, !.maxPapers = maxPapers,
                             !.reply = [kind |-> "none", ids |-> <<>>]] :
                papers \in FilterInputs, maxPapers \in 1..MaxFilterInput }
  /\ req = [endpoint |-> "stream", question |-> <<>>, closed |-> FALSE]
  /\ ticks = 0 /\ now = 0 /\ hasCoreKey = TRUE /\ searchCache = {}
  /\ events = <<>> /\ ended = FALSE /\ httpStatus = 0 /\ body = NoResult
  /\ callLog = <<>> /\ outstanding = {}
  /\ h = InitH /\ s = InitS /\ st = InitSt /\ failedIn = ""
filterFrame == << req, ticks, now, hasCoreKey, searchCache, events, ended, httpStatus, body,
                  h, s, st, failedIn >>
\* filterRelevantPapers(question, papers, maxPapers) up to the provider call
FilterCall ==
  /\ pc = "filter_call"
  /\ IF FewPapers(fn.papers, fn.maxPapers)
       THEN /\ fn' = [fn EXCEPT !.value = fn.papers]
            /\ pc' = "filter_done"
            /\ UNCHANGED << callLog, outstanding >>
       ELSE /\ callLog' = Append(callLog, Logged("filter", <<>>, <<>>, <<>>))
            /\ outstanding' = { Call("filter", <<>>, 0) }
            /\ pc' = "filter_wait"
            /\ UNCHANGED fn
  /\ UNCHANGED filterFrame
\* the provider call settles and the function returns
FilterReply(reply) ==
  /\ pc = "filter_wait"
  /\ fn' = [fn EXCEPT !.reply = reply, !.value = FilterResult(fn.papers, reply)]
  /\ outstanding' = {}
  /\ pc' = "filter_done"
  /\ UNCHANGED << callLog, filterFrame >>
FilterNext == FilterCall \/ \E reply \in FilterCallReplies : FilterReply(reply)
FilterSpec == FilterInit /\ [][FilterNext]_vars

\* the entries of the reply that are indices of the input list
ValidIds(ids, papers) == SelectSeq(ids, LAMBDA id : id >= 0 /\ id < Len(papers))

\* C17: filterRelevantPapers returns at most maxPapers papers, whatever the
\* provider replies.
C17_AtMostMaxPapers ==
  pc = "filter_done" => Len(fn.value) <= fn.maxPapers

\* C18: every element of the value is a record of the input, no input record
\* is in the value twice, and an entry of the selection that is not an index
\* of the input is dropped without affecting the other entries.
C18_SelectionOfInput ==
  pc = "filter_done" =>
    /\ \A i \in 1..Len(fn.value) : fn.value[i] \in Range(fn.papers)
    /\ \A i, j \in 1..Len(fn.value) : i # j => fn.value[i] # fn.value[j]
    /\ (fn.reply.kind = "array" /\ ValidIds(fn.reply.ids, fn.papers) # <<>>) =>
         fn.value = [i \in 1..Len(ValidIds(fn.reply.ids, fn.papers)) |->
                       fn.papers[ValidIds(fn.reply.ids, fn.papers)[i] + 1]]

\* C19: with at most maxPapers papers in the input, the value is the input
\* and the text-generation provider is not called.
C19_FewPapersUnfiltered ==
  (pc = "filter_done" /\ Len(fn.papers) <= fn.maxPapers) =>
    /\ fn.value = fn.papers
    /\ CallsOfKind({"filter"}) = {}
    /\ fn.reply.kind = "none"
\* a list of exactly maxPapers papers
C19_Witness ==
  /\ pc = "filter_done"
  /\ Len(fn.papers) = fn.maxPapers
  /\ fn.value = fn.papers

MaxBalanceLen == 5
\* largest targetTotal
MaxTargetTotal == 4
\* the source fields of the records; the empty one is a record without source
BalanceSources == {"Semantic Scholar", "CORE", ""}
\* lists of records told apart by their citation counts, later ones cited more
BalanceInputs ==
  UNION { { [i \in 1..n |-> FourPaper(<<"c", "0">>, "2024", i, sources[i])] :
              sources \in [1..n -> BalanceSources] } : n \in 0..MaxBalanceLen }
BalanceInit ==
  /\ pc = "balance_call"
  /\ fn \in { [InitFn EXCEPT !.papers = papers, !.maxPapers = targetTotal] :
                papers \in BalanceInputs, targetTotal \in 0..MaxTargetTotal }
  /\ req = [endpoint |-> "stream", question |-> <<>>, closed |-> FALSE]
  /\ ticks = 0 /\ now = 0 /\ hasCoreKey = TRUE /\ searchCache = {}
  /\ events = <<>> /\ ended = FALSE /\ httpStatus = 0 /\ body = NoResult
  /\ callLog = <<>> /\ outstanding = {}
  /\ h = InitH /\ s = InitS /\ st = InitSt /\ failedIn = ""
\* balanced = balanceResultSources(papers, targetTotal)
BalanceCall ==
  /\ pc = "balance_call"
  /\ fn' = [fn EXCEPT !.value = balanceResultSources(fn.papers, fn.maxPapers)]
  /\ pc' = "balance_done"
  /\ UNCHANGED pipelineVars
BalanceSpec == BalanceInit /\ [][BalanceCall]_vars

\* the source a record counts for
SourceName(paper) == IF paper.source = "" THEN "Unknown" ELSE paper.source
SourceNames(papers) == { SourceName(papers[i]) : i \in 1..Len(papers) }
\* how many records of a list count for a source
CountOfSource(papers, source) ==
  Cardinality({ i \in 1..Len(papers) : SourceName(papers[i]) = source })

\* C21: for an input with two or more sources, the output holds for each
\* source at least min(records of that source, ceil(targetTotal / sources))
\* records of it.
C21_FirstPassShare ==
  (pc = "balance_done" /\ Cardinality(SourceNames(fn.papers)) >= 2) =>
    \A source \in SourceNames(fn.papers) :
      CountOfSource(fn.value, source) >=
        Min(CountOfSource(fn.papers, source),
            CeilDiv(fn.maxPapers, Cardinality(SourceNames(fn.papers))))
\* three records of one source and one, less cited, of another; two are asked
\* for and the minority record is among them
C21_Witness ==
  /\ pc = "balance_done"
  /\ Len(fn.papers) = 4 /\ fn.maxPapers = 2
  /\ CountOfSource(fn.papers, "CORE") = 1
  /\ fn.papers[1].source = "CORE"
  /\ CountOfSource(fn.papers, "Semantic Scholar") = 3
  /\ CountOfSource(fn.value, "CORE") = 1
  /\ Len(fn.value) = 2

\* the positions of the input the first pass takes: a record is taken when
\* fewer than ceil(targetTotal / sources) records of its source precede it
PositionInSource(papers, i) ==
  Cardinality({ j \in 1..i : SourceName(papers[j]) = SourceName(papers[i]) })
FirstPassPositions ==
  { i \in 1..Len(fn.papers) :
      PositionInSource(fn.papers, i)
        <= CeilDiv(fn.maxPapers, Cardinality(SourceNames(fn.papers))) }
FirstPassShort ==
  /\ pc = "balance_done"
  /\ Cardinality(SourceNames(fn.papers)) >= 2
  /\ Cardinality(FirstPassPositions) < fn.maxPapers
\* C33: when the first pass comes out short, the output has min(input
\* length, targetTotal) records, no record twice; it starts with the
\* first-pass records and goes on with leftovers in descending citation
\* order, none left out being cited more than one taken.
C33_SecondPassFills ==
  FirstPassShort =>
    LET first == Cardinality(FirstPassPositions)
        leftOut == { i \in 1..Len(fn.papers) :
                       \A k \in 1..Len(fn.value) : fn.value[k] # fn.papers[i] }
    IN /\ Len(fn.value) = Min(Len(fn.papers), fn.maxPapers)
       /\ \A k, l \in 1..Len(fn.value) : fn.value[k] = fn.value[l] => k = l
       /\ { fn.value[k] : k \in 1..first } = { fn.papers[i] : i \in FirstPassPositions }
       /\ \A k \in (first + 1)..Len(fn.value) :
            /\ \E i \in (1..Len(fn.papers)) \ FirstPassPositions : fn.papers[i] = fn.value[k]
            /\ k < Len(fn.value) => fn.value[k].citationCount >= fn.value[k + 1].citationCount
            /\ \A i \in leftOut : fn.papers[i].citationCount <= fn.value[k].citationCount
\* four records of one source and one of another, four asked for: the first
\* pass takes three, one of the two leftovers fills up and the other is left
C33_Witness ==
  /\ FirstPassShort
  /\ Len(fn.papers) = 5 /\ fn.maxPapers = 4
  /\ Cardinality(FirstPassPositions) = 3
  /\ Len(fn.value) = 4

\* C34: the output never has more than targetTotal records.
C34_AtMostTargetTotal ==
  pc = "balance_done" => Len(fn.value) <= fn.maxPapers


(***************************************************************************)
(* expandSearchTerms (part_001:77-100; in part_003 the same steps are      *)
(* lines 82-91 of searchPapers) with generateAlternativeSearchTerms        *)
(* (part_003:317-367), called on their own.  It uses pc, fn and callLog.   *)
(***************************************************************************)
\* longest array in the provider's reply
MaxAltItems == 3
\* a query too long for the alternatives request
LongQuery == [i \in 1..(AltQueryMaxLen + 1) |-> "x"]
TermsQueries == SearchQueries \cup {LongQuery}
\* what translateToEnglish can resolve to: the query itself on error, else the
\* provider's text, which may be empty
Translations(query) == { query, PrimaryQuery, <<>>, LongQuery }
\* the provider fails, replies with text that is not a JSON array, or with an
\* array of the query, other terms, empty strings and values that are no strings
TermsReplies(query) ==
  { [kind |-> "fail", items |-> <<>>], [kind |-> "notjson", items |-> <<>>] }
  \cup UNION { { [kind |-> "array", items |-> items] :
                   items \in [1..n -> { [isString |-> TRUE, text |-> query],
                                        [isString |-> TRUE, text |-> PrimaryQuery],
                                        [isString |-> TRUE, text |-> AltTerm],
                                        [isString |-> TRUE, text |-> <<>>],
                                        [isString |-> FALSE, text |-> <<>>] }] } :
               n \in 0..MaxAltItems }
TermsInit ==
  /\ pc = "terms_call"
  /\ fn \in { [InitFn EXCEPT !.query = query, !.reply = [kind |-> "none", items |-> <<>>]] :
                query \in TermsQueries }
  /\ req = [endpoint |-> "stream", question |-> <<>>, closed |-> FALSE]
  /\ ticks = 0 /\ now = 0 /\ hasCoreKey = TRUE /\ searchCache = {}
  /\ events = <<>> /\ ended = FALSE /\ httpStatus = 0 /\ body = NoResult
  /\ callLog = <<>> /\ outstanding = {}
  /\ h = InitH /\ s = InitS /\ st = InitSt /\ failedIn = ""
\* generateAlternativeSearchTerms(englishQuery) up to the provider call
TermsBegin(englishQuery) ==
  IF Len(englishQuery) <= AltQueryMaxLen
    THEN /\ fn' = [fn EXCEPT !.englishQuery = englishQuery]
         /\ callLog' = Append(callLog, Logged("expand", englishQuery, <<>>, <<>>))
         /\ pc' = "terms_expanding"
    ELSE /\ fn' = [fn EXCEPT !.englishQuery = englishQuery,
                             !.value = Unique(<<englishQuery>>, <<>>)]
         /\ callLog' = callLog
         /\ pc' = "terms_done"
termsFrame == << req, ticks, now, hasCoreKey, searchCache, events, ended, httpStatus, body,
                 outstanding, h, s, st >>
\* expandSearchTerms(query) up to its first provider call
TermsCall ==
  /\ pc = "terms_call"
  /\ IF detectNonEnglishQuery(fn.query)
       THEN /\ callLog' = Append(callLog, Logged("translate", fn.query, <<>>, <<>>))
            /\ pc' = "terms_translating"
            /\ UNCHANGED fn
       ELSE TermsBegin(fn.query)
  /\ UNCHANGED << termsFrame, failedIn >>
TermsTranslated(englishQuery) ==
  /\ pc = "terms_translating"
  /\ TermsBegin(englishQuery)
  /\ UNCHANGED << termsFrame, failedIn >>
\* a variant of TranslationOnError that gives the empty text
TranslationOnError_Empty(query) == <<>>
\* the catch of translateToEnglish: return query
TranslationOnError(query) == query
\* the translation request failed; failedIn remembers it
TermsTranslateFails ==
  /\ pc = "terms_translating"
  /\ TermsBegin(TranslationOnError(fn.query))
  /\ failedIn' = "translate"
  /\ UNCHANGED termsFrame
TermsReply(reply) ==
  /\ pc = "terms_expanding"
  /\ fn' = [fn EXCEPT !.reply = reply, !.value = SearchTermsFor(fn.englishQuery, reply)]
  /\ pc' = "terms_done"
  /\ UNCHANGED << callLog, termsFrame, failedIn >>
TermsNext ==
  \/ TermsCall
  \/ \E englishQuery \in Translations(fn.query) : TermsTranslated(englishQuery)
  \/ TermsTranslateFails
  \/ \E reply \in TermsReplies(fn.englishQuery) : TermsReply(reply)
TermsSpec == TermsInit /\ [][TermsNext]_vars

\* C22: the search terms of a query are never empty, start with the query or
\* its translation, and hold no term twice, whatever the provider replied.
C22_SearchTerms ==
  pc = "terms_done" =>
    /\ Len(fn.value) >= 1
    /\ fn.value[1] = fn.englishQuery
    /\ \/ fn.englishQuery = fn.query
       \/ CallsOfKind({"translate"}) # {} /\ fn.englishQuery \in Translations(fn.query)
    /\ \A i, j \in 1..Len(fn.value) : i # j => fn.value[i] # fn.value[j]
\* the reply named the query itself and one alternative twice; both are in
\* the list once, after the query
C22_Witness ==
  /\ pc = "terms_done"
  /\ fn.query = <<" ", "A", "b", "TAB">>
  /\ Len(fn.reply.items) = 3
  /\ fn.reply.items[1].text = fn.query
  /\ fn.reply.items[2] = fn.reply.items[3]
  /\ fn.value = << fn.query, AltTerm >>

\* C36: a query of more than 100 characters gets no alternatives request and
\* the list of just that query; a failed or unusable alternatives reply gives
\* the list of just the query; a failed translation leaves the query as it
\* was; and the expansion ends every time.
C36_ExpansionDegrades ==
  /\ failedIn = "translate" /\ pc # "terms_translating" => fn.englishQuery = fn.query
  /\ pc = "terms_done" =>
       /\ Len(fn.englishQuery) > 100 =>
            /\ CallsOfKind({"expand"}) = {}
            /\ fn.value = << fn.englishQuery >>
       /\ fn.reply.kind \in {"fail", "notjson"} => fn.value = << fn.englishQuery >>
\* the translation failed and then the alternatives request failed too
C36_Witness ==
  /\ pc = "terms_done"
  /\ failedIn = "translate"
  /\ detectNonEnglishQuery(fn.query)
  /\ fn.reply.kind = "fail"
  /\ fn.value = << fn.query >>

\* the surname of the first author of the catalogue's author texts
FirstSurname(authors) ==
  IF authors = <<>> \/ authors = <<"Unknown">> THEN "Unknown"
  ELSE IF authors[1] = "Ada" THEN "Lovelace" ELSE "Turing"

\* C23: the citation entries of the analysis stage are one-to-one with the
\* filtered papers, in their order, and the key of an entry is the surname of
\* that paper's first author followed by that paper's year, wherever the paper
\* stands in the list.
C23_KeysFromOwnData ==
  h.citationsWithKeys # <<>> =>
    /\ Len(h.citationsWithKeys) = Len(h.filteredPapers)
    /\ \A i \in 1..Len(h.citationsWithKeys) :
         LET entry == h.citationsWithKeys[i]
             paper == h.filteredPapers[i]
         IN /\ entry.title = paper.title
            /\ entry.authors = paper.authors
            /\ entry.year = paper.year
            /\ entry.index = i
            /\ entry.citationKey = << FirstSurname(paper.authors), paper.year >>
\* the filter moved the fifth paper of the search result to the front, and
\* two of the five entries have the same key
C23_Witness ==
  /\ Len(h.citationsWithKeys) = FilterMaxPapers
  /\ Len(h.papers) > FilterMaxPapers
  /\ h.filteredPapers[1] = h.papers[5]
  /\ \E i, j \in 1..Len(h.citationsWithKeys) :
       i # j /\ h.citationsWithKeys[i].citationKey = h.citationsWithKeys[j].citationKey

\* C24: a paper without author data has a key that starts with 'Unknown', and
\* a paper without a year has a key that ends with 'n.d.'.
C24_MissingDataKey ==
  (h.citationsWithKeys # <<>> /\ Len(h.citationsWithKeys) = Len(h.filteredPapers)) =>
    \A i \in 1..Len(h.citationsWithKeys) :
      LET key == h.citationsWithKeys[i].citationKey
          paper == h.filteredPapers[i]
      IN /\ paper.authors \in {<<>>, <<"Unknown">>} => key[1] = "Unknown"
         /\ paper.year \in {"Unknown", "N/A"} => key[Len(key)] = "n.d."

\* C38: no two entries of the citationMapping of a complete event have the
\* same key.
C38_KeysUnique ==
  \A e \in 1..Len(events) :
    events[e].status = "complete" =>
      \A i, j \in 1..Len(events[e].result.citationMapping) :
        events[e].result.citationMapping[i].key = events[e].result.citationMapping[j].key
          => i = j

(***************************************************************************)
(* searchPapers called with several limits (part_003:67-179): a process    *)
(* without a CORE_API_KEY serves calls for one query, within the TTL of    *)
(* its cache entries.                                                      *)
(***************************************************************************)
\* the largest limit of a call
MaxSearchLimit == 32
SearchLimits == {StreamLimit, QuestionLimit, MaxSearchLimit}
LimitsNext ==
  \/ \E limit \in SearchLimits : SearchCall(RichQuery, limit)
  \/ SearchCacheCheck
  \/ \E reply \in ExpandReplies : ExpandReturns(reply)
  \/ \E c \in outstanding, outcome \in {"ok", "error", "429"} : AdapterReturns(c, outcome)
  \/ SearchReturn
LimitsSpec == SearchInit /\ [][LimitsNext]_vars

ClientCloses ==
  /\ req.endpoint = "stream"
  /\ pc \notin {"idle", "done"}
  /\ ~req.closed
  /\ req' = [req EXCEPT !.closed = TRUE]
  /\ UNCHANGED << pc, envVars, searchCache, events, ended, httpStatus, body, callLog,
                  outstanding, h, s, st, failedIn >>
CloseNext == Next \/ ClientCloses
CloseSpec == Init /\ [][CloseNext]_vars

\* C26: after the client's connection broke, no provider or adapter call is
\* started for the request and no event is written for it.
C26_AbandonedAfterClose ==
  [][req.closed => (callLog' = callLog /\ events' = events)]_vars

(***************************************************************************)
(* A /stream-question request all of whose external calls return, fail or  *)
(* end: every step of the handler that waits for a call is taken at some   *)
(* time.  The outcome of each call stays the provider's choice.            *)
(***************************************************************************)
HandlerSteps ==
  \/ \E reply \in EvalReplies : EvalReturns(reply)
  \/ SearchCacheCheck
  \/ \E ok \in BOOLEAN : TranslateReturns(ok)
  \/ \E reply \in ExpandReplies : ExpandReturns(reply)
  \/ \E c \in outstanding, outcome \in {"ok", "error", "429"} : AdapterReturns(c, outcome)
  \/ PapersReturned
  \/ \E reply \in FilterReplies : FilterReturns(reply)
  \/ \E ok \in BOOLEAN : StreamReqReturns(ok)
  \/ \E k \in 1..Len(st.remaining) : StreamData(k)
  \/ StreamEnd
  \/ StreamError
  \/ \E ok \in BOOLEAN : FallbackReturns(ok)
LiveNext ==
  \/ \E q \in Questions : Receive("stream", q)
  \/ HandlerSteps
\* a process that has served no search yet
LiveInit == Init /\ searchCache = {}
LiveSpec == LiveInit /\ [][LiveNext]_vars /\ WF_vars(HandlerSteps)

\* C27: an accepted /stream-question request eventually has written its
\* terminal event and ended the response, whatever the calls return.
C27_StreamTerminates ==
  (pc \notin {"idle", "done"}) ~>
    (pc = "done" /\ ended /\ events # <<>> /\ LastEvent.status \in {"complete", "error"})
\* Semantic Scholar answered 429 to a search and to each of its retries; the
\* last attempt of the budget is outstanding
C27_Witness ==
  /\ pc = "primary"
  /\ \E c \in outstanding : c.kind = "ss" /\ c.retries = 0

(***************************************************************************)
(* The adapters of the four-source variant, one call at a time             *)
(* (part_001:385-462, 467-593, 1095-1169, 1174-1249).  fn holds the call:  *)
(* the adapter, the phase (searchPubMed asks esearch in phase 1 and        *)
(* esummary in phase 2, the others have one phase), the retries counter,   *)
(* what the provider answered to each request of this phase (log), and how *)
(* the promise settled.                                                    *)
(***************************************************************************)
maxRetries == 3
\* What a request comes back with.  "ok": status 200 and the expected body
\* with records; "none": the same without a record; "badbody": status 200
\* and a body without the expected field; "badrecord": a body whose records
\* make the normalising code throw; "neterror": no response at all; the
\* others: axios throws with that response status.
Answers == {"ok", "none", "badbody", "badrecord", "neterror", "500", "429", "403"}
Thrown == {"badrecord", "neterror", "500", "429", "403"}
FoundPapers == <<"paper">>
\* error.response && error.response.status === 429 (|| 403 in two adapters)
isRateLimit(adapter, answer) ==
  answer = "429" \/ (adapter \in {"ss", "core"} /\ answer = "403")
\* a variant of LoopGoesOn that allows one attempt more
LoopGoesOn_Inclusive(retries) == retries <= maxRetries
\* while (!success && retries < maxRetries), after a failed attempt
LoopGoesOn(retries) == retries < maxRetries
IdleCall == [adapter |-> "", phase |-> 0, retries |-> 0, log |-> <<>>,
             settled |-> "pending", value |-> <<>>]
\* return list
Resolved(call, list) == [call EXCEPT !.settled = "resolved", !.value = list]
\* a variant of Caught that lets the error go on to the caller
Caught_Rethrows(call) == [call EXCEPT !.settled = "rejected", !.value = <<"error">>]
\* the outer catch of every adapter: log the error, return []
Caught(call) == [call EXCEPT !.settled = "resolved", !.value = <<>>]
AdapterInit ==
  /\ pc = "adapter_idle"
  /\ fn = IdleCall
  /\ req = [endpoint |-> "stream", question |-> <<>>, closed |-> FALSE]
  /\ ticks = 0 /\ now = 0 /\ hasCoreKey = TRUE /\ searchCache = {}
  /\ events = <<>> /\ ended = FALSE /\ httpStatus = 0 /\ body = NoResult
  /\ callLog = <<>> /\ outstanding = {}
  /\ h = InitH /\ s = InitS /\ st = InitSt /\ failedIn = ""
\* the adapter is called and sends its first request
AdapterBegin(adapter) ==
  /\ pc = "adapter_idle"
  /\ fn' = [IdleCall EXCEPT !.adapter = adapter, !.phase = 1]
  /\ pc' = "attempt"
  /\ UNCHANGED pipelineVars
\* searchArXiv after its one request (part_001:397-461)
ArXivSettles(call, answer) ==
  IF answer = "ok" THEN Resolved(call, FoundPapers)
  ELSE IF answer \in {"none", "badbody"} THEN Resolved(call, <<>>)
  ELSE Caught(call)
\* the request of an adapter came back: the rest of the try block, or the
\* inner catch up to its timer.  An esearch answer whose idlist cannot be
\* joined throws at the start of the next try block, before any request.
AttemptSettles(answer) ==
  /\ pc = "attempt"
  /\ UNCHANGED pipelineVars
  /\ LET call == [fn EXCEPT !.log = Append(@, answer)]
     IN IF fn.adapter = "arxiv"
          THEN fn' = ArXivSettles(call, answer) /\ pc' = "adapter_done"
        ELSE IF answer \in Thrown
          THEN LET failed == [call EXCEPT !.retries = @ + 1]
               IN IF isRateLimit(fn.adapter, answer)
                    THEN fn' = failed /\ pc' = "backoff"
                    ELSE fn' = Caught(failed) /\ pc' = "adapter_done"
        ELSE IF fn.adapter = "pubmed" /\ fn.phase = 1 /\ answer = "ok"
          THEN \* idList is not empty: retries = 0, success = false, esummary is asked
               /\ fn' = [call EXCEPT !.phase = 2, !.retries = 0, !.log = <<>>]
               /\ pc' = "attempt"
        ELSE /\ fn' = Resolved(call, IF answer = "ok" THEN FoundPapers ELSE <<>>)
             /\ pc' = "adapter_done"
\* the timer of the inner catch fired: the loop condition is tested again
BackoffElapsed ==
  /\ pc = "backoff"
  /\ UNCHANGED pipelineVars
  /\ IF LoopGoesOn(fn.retries)
       THEN fn' = fn /\ pc' = "attempt"
       ELSE \* idList, or papers, is still empty
            fn' = Resolved(fn, <<>>) /\ pc' = "adapter_done"
AdapterNext ==
  \/ \E adapter \in Range(FourAdapters) : AdapterBegin(adapter)
  \/ \E answer \in Answers : AttemptSettles(answer)
  \/ BackoffElapsed
AdapterSpec == AdapterInit /\ [][AdapterNext]_vars

\* the requests sent in the current phase of the call
AttemptsMade == Len(fn.log) + (IF pc = "attempt" THEN 1 ELSE 0)
\* C28: a loop-based adapter sends at most 3 requests in a phase, sends a
\* further one only after a rate-limit answer (429, and 403 for Semantic
\* Scholar and CORE), and its counter has gone up by one with every failed
\* attempt of the phase.
C28_BoundedRetryLoop ==
  fn.adapter \in {"ss", "core", "pubmed"} =>
    /\ AttemptsMade <= 3
    /\ \A i \in 1..Len(fn.log) :
         i < AttemptsMade =>
           \/ fn.log[i] = "429"
           \/ fn.log[i] = "403" /\ fn.adapter \in {"ss", "core"}
    /\ fn.retries = Cardinality({ i \in 1..Len(fn.log) : fn.log[i] \in Thrown })
\* PubMed's esummary answered 429 three times and the adapter gave up
C28_Witness ==
  /\ pc = "adapter_done"
  /\ fn.adapter = "pubmed" /\ fn.phase = 2
  /\ fn.log = <<"429", "429", "429">>

\* C29: an adapter never rejects, what it resolves to is a list, and after
\* anything but a good answer to its last request the list is empty.
C29_ResolvesToList ==
  /\ fn.settled # "rejected"
  /\ pc = "adapter_done" =>
       /\ fn.settled = "resolved"
       /\ fn.value \in {<<>>, FoundPapers}
       /\ fn.log[Len(fn.log)] # "ok" => fn.value = <<>>
\* Semantic Scholar answered 429 and then with a record that cannot be normalised
C29_Witness ==
  /\ pc = "adapter_done"
  /\ fn.adapter = "ss"
  /\ fn.log = <<"429", "badrecord">>
  /\ fn.value = <<>>

(***************************************************************************)
(* The single-source server (src/server.js): GET /search asks Semantic     *)
(* Scholar through searchPapers and answers with the transformed records.  *)
(* fn holds the call of searchPapers: the query, the retries it has left,  *)
(* and what the provider answered to each request (log); httpStatus and    *)
(* body are the response of /search.                                       *)
(***************************************************************************)
\* a field the provider left out
Absent == "undefined"
\* A raw record; numbers are written as the provider prints them.  authorsIs
\* tells what the authors field is: an array of objects, a text, or absent.
ServerRaw(title, abstract, year, citationCount, referenceCount, authorsIs, authors, paperId) ==
  [title |-> title, abstract |-> abstract, year |-> year, citationCount |-> citationCount,
   referenceCount |-> referenceCount, authorsIs |-> authorsIs, authors |-> authors,
   paperId |-> paperId]
FullRecord ==
  ServerRaw("t", "a", "2024", "7", "0", "array", <<[name |-> "Ada Lovelace"]>>, "id1")
BareRecord == ServerRaw(Absent, Absent, Absent, Absent, Absent, Absent, <<>>, Absent)
\* a record whose authors field is a text, which has no map method
OddRecord == ServerRaw("t", Absent, Absent, "0", "0", "text", <<>>, "id2")
ServerLists == { <<>>, <<FullRecord>>, <<BareRecord>>, <<FullRecord, BareRecord>>,
                 <<FullRecord, OddRecord>> }
\* What axios.get comes back with: status 200 and a data.data list, status
\* 200 without one, no response at all, or an exception with a status.
ServerStatuses == {"429", "403", "404", "500", "503"}
ServerAnswers ==
  { [kind |-> "ok", list |-> list] : list \in ServerLists }
    \cup { [kind |-> "badbody"], [kind |-> "neterror"] }
    \cup { [kind |-> "status", status |-> status] : status \in ServerStatuses }
ServerQueries == { <<>>, <<"a">>, <<"a", "b">> }
\* the error objects: axios's own, and the two the code makes
TransportError(answer) ==
  IF answer.kind = "status"
    THEN [message |-> <<"Request failed with status code", answer.status>>,
          response |-> answer.status]
    ELSE [message |-> <<"Network Error">>, response |-> Absent]
UnableToFetch ==
  [message |-> <<"Error: Unable to fetch data from Semantic Scholar API.">>,
   response |-> Absent]
TypeError == [message |-> <<"paper.authors.map is not a function">>, response |-> Absent]
\* a variant of RateLimitExhausted that passes the transport error on
RateLimitExhausted_Raw(error) == error
\* throw new Error('Rate limit reached. Please try again later.')
RateLimitExhausted(error) ==
  [message |-> <<"Rate limit reached. Please try again later.">>, response |-> Absent]
\* the record /search answers with for a raw record
Transformed(paper) ==
  [title |-> IF paper.title = Absent THEN "N/A" ELSE paper.title,
   abstract |-> IF paper.abstract = Absent THEN "No abstract available" ELSE paper.abstract,
   year |-> IF paper.year = Absent THEN "N/A" ELSE paper.year,
   citationCount |-> IF paper.citationCount = Absent THEN "N/A" ELSE paper.citationCount,
   referenceCount |-> IF paper.referenceCount = Absent THEN "N/A" ELSE paper.referenceCount,
   authors |-> IF paper.authorsIs = Absent THEN <<>>
               ELSE [k \in 1..Len(paper.authors) |-> paper.authors[k].name],
   link |-> IF paper.paperId = Absent THEN "N/A"
            ELSE <<"https://semanticscholar.org/paper/", paper.paperId>>]
\* the catch of /search
ServerFails(error) ==
  /\ httpStatus' = 500
  /\ body' = [error |-> error.message]
  /\ pc' = "server_done"
serverFrame == << req, ticks, now, hasCoreKey, searchCache, events, ended,
                 callLog, outstanding, h, s, st, failedIn >>
ServerInit ==
  /\ pc = "server_idle"
  /\ fn = [query |-> <<>>, retries |-> 0, log |-> <<>>]
  /\ req = [endpoint |-> "stream", question |-> <<>>, closed |-> FALSE]
  /\ ticks = 0 /\ now = 0 /\ hasCoreKey = TRUE /\ searchCache = {}
  /\ events = <<>> /\ ended = FALSE /\ httpStatus = 0 /\ body = NoResult
  /\ callLog = <<>> /\ outstanding = {}
  /\ h = InitH /\ s = InitS /\ st = InitSt /\ failedIn = ""
\* GET /search?query=...: 400 without a query, else searchPapers(query)
ServerSearch(query) ==
  /\ pc = "server_idle"
  /\ UNCHANGED serverFrame
  /\ IF query = <<>>
       THEN /\ httpStatus' = 400
            /\ body' = [error |-> <<"Missing query parameter">>]
            /\ pc' = "server_done"
            /\ fn' = fn
       ELSE /\ fn' = [query |-> query, retries |-> DefaultRetries, log |-> <<>>]
            /\ pc' = "server_wait"
            /\ UNCHANGED << httpStatus, body >>
\* axios.get of searchPapers came back: searchPapers returns, sleeps before
\* a retry, or throws, and /search answers
ServerAnswered(answer) ==
  /\ pc = "server_wait"
  /\ UNCHANGED serverFrame
  /\ fn' = [fn EXCEPT !.log = Append(@, answer)]
  /\ IF answer.kind = "ok"
       THEN IF \E k \in 1..Len(answer.list) : answer.list[k].authorsIs = "text"
              THEN ServerFails(TypeError)
              ELSE /\ httpStatus' = 200
                   /\ body' = [papers |-> [k \in 1..Len(answer.list) |->
                                             Transformed(answer.list[k])]]
                   /\ pc' = "server_done"
     ELSE IF answer.kind = "badbody"
       THEN ServerFails(UnableToFetch)
     ELSE IF answer.kind = "status" /\ answer.status = "429"
       THEN IF fn.retries > 0
              THEN pc' = "server_sleep" /\ UNCHANGED << httpStatus, body >>
              ELSE ServerFails(RateLimitExhausted(TransportError(answer)))
     ELSE ServerFails(TransportError(answer))
\* the 3 seconds are over: return searchPapers(query, limit, retries - 1)
ServerRetries ==
  /\ pc = "server_sleep"
  /\ fn' = [fn EXCEPT !.retries = @ - 1]
  /\ pc' = "server_wait"
  /\ UNCHANGED << serverFrame, httpStatus, body >>
ServerNext ==
  \/ \E query \in ServerQueries : ServerSearch(query)
  \/ \E answer \in ServerAnswers : ServerAnswered(answer)
  \/ ServerRetries
ServerSpec == ServerInit /\ [][ServerNext]_vars

\* the requests searchPapers has sent for the call
ServerRequests == Len(fn.log) + (IF pc = "server_wait" THEN 1 ELSE 0)
Is429(answer) == answer.kind = "status" /\ answer.status = "429"
\* C30: searchPapers sends at most 4 requests, a further one only after a
\* 429, each with one retry less; a 429 with no retry left ends in the
\* rate-limit error, any other failure in that failure's own error, and
\* /search answers both with status 500.
C30_RetryOn429Only ==
  /\ ServerRequests <= 4
  /\ \A i \in 1..Len(fn.log) : i < ServerRequests => Is429(fn.log[i])
  /\ pc \in {"server_wait", "server_sleep"} =>
       fn.retries + ServerRequests = 4
  /\ (pc = "server_done" /\ fn.log # <<>>) =>
       LET last == fn.log[Len(fn.log)]
       IN /\ Is429(last) =>
               /\ Len(fn.log) = 4
               /\ httpStatus = 500
               /\ body = [error |-> <<"Rate limit reached. Please try again later.">>]
          /\ (last.kind \in {"status", "neterror"} /\ ~Is429(last)) =>
               /\ httpStatus = 500
               /\ body = [error |-> TransportError(last).message]
          /\ last.kind = "badbody" => httpStatus = 500
\* four 429 answers in a row, and /search has answered
C30_Witness ==
  /\ pc = "server_done"
  /\ Len(fn.log) = 4
  /\ \A i \in 1..4 : Is429(fn.log[i])
  /\ httpStatus = 500

(***************************************************************************)
(* rankPapersByRelevance (part_003:513-546) called on its own.  fn.papers  *)
(* is the array handed in, as it is after the call, fn.again what it held  *)
(* before, fn.query the query and fn.value the array returned.             *)
(***************************************************************************)
\* longest input list
MaxRankLen == 3
\* records that differ in what the score looks at: a title with or without
\* the query, the year, the citations
RankRecords ==
  { FourPaper(title, year, citationCount, "Semantic Scholar") :
      title \in {PrimaryQuery, <<"c", "0">>}, year \in {"2026", "Unknown"},
      citationCount \in {0, 3} }
RankInputs == UNION { [1..n -> RankRecords] : n \in 0..MaxRankLen }
RankInit ==
  /\ pc = "rank_call"
  /\ fn \in { [InitFn EXCEPT !.papers = papers, !.again = papers, !.query = PrimaryQuery] :
                papers \in RankInputs }
  /\ req = [endpoint |-> "stream", question |-> <<>>, closed |-> FALSE]
  /\ ticks = 0 /\ now = 0 /\ hasCoreKey = TRUE /\ searchCache = {}
  /\ events = <<>> /\ ended = FALSE /\ httpStatus = 0 /\ body = NoResult
  /\ callLog = <<>> /\ outstanding = {}
  /\ h = InitH /\ s = InitS /\ st = InitSt /\ failedIn = ""
\* ranked = rankPapersByRelevance(papers, query); papers.map builds the array
\* that is sorted, the array handed in is not written to
RankCall ==
  /\ pc = "rank_call"
  /\ fn' = [fn EXCEPT !.value = rankPapersByRelevance(fn.papers, fn.query)]
  /\ pc' = "rank_done"
  /\ UNCHANGED pipelineVars
RankSpec == RankInit /\ [][RankCall]_vars

\* a ranked record without its score
Unscored(paper) == [f \in (DOMAIN paper) \ {"relevanceScore"} |-> paper[f]]
\* C35: the ranked list holds the input's records, each as often as the
\* input does and each with a relevanceScore, in non-increasing order of
\* that score; the input list is as it was.
C35_RankedPermutation ==
  pc = "rank_done" =>
    /\ Len(fn.value) = Len(fn.again)
    /\ \A k \in 1..Len(fn.value) : "relevanceScore" \in DOMAIN fn.value[k]
    /\ \A r \in RankRecords :
         Cardinality({ k \in 1..Len(fn.value) : Unscored(fn.value[k]) = r })
           = Cardinality({ i \in 1..Len(fn.again) : fn.again[i] = r })
    /\ \A k \in 1..(Len(fn.value) - 1) :
         fn.value[k].relevanceScore >= fn.value[k + 1].relevanceScore
    /\ fn.papers = fn.again
\* three records came in with the best one last, and it is first in the output
C35_Witness ==
  /\ pc = "rank_done"
  /\ Len(fn.again) = 3
  /\ fn.again[1] # fn.again[3]
  /\ Unscored(fn.value[1]) = fn.again[3]
  /\ fn.value[1].relevanceScore > fn.value[2].relevanceScore

(***************************************************************************)
(* Two searchPapers calls in flight at once in one process                 *)
(* (part_003:67-179).  A call runs from one await to the next without      *)
(* interruption; at an await the event loop may continue the other call.   *)
(* pc, s, callLog and outstanding are those of the call the event loop is  *)
(* running, fn.parked holds the ones of the other call.                    *)
(***************************************************************************)
\* two spellings of one key
OverlapQueries == { PrimaryQuery, <<" ", "A", "b", "TAB">> }
OverlapReplies == { r \in ExpandReplies : r.kind # "notjson" }
IdleRun == [pc |-> "idle", s |-> InitS, callLog |-> <<>>, outstanding |-> {}]
RunningRun == [pc |-> pc, s |-> s, callLog |-> callLog, outstanding |-> outstanding]
\* the awaits of searchPapers: 84-85, 90, 123, 152; or the call has not begun or is over
AtAwait(p) == p \in {"idle", "translating", "expanding", "primary", "alternates", "search_done"}
OverlapInit ==
  /\ pc = "idle"
  /\ req = [endpoint |-> "stream", question |-> <<>>, closed |-> FALSE]
  /\ ticks = 0 /\ now = 0 /\ hasCoreKey = FALSE /\ searchCache = {}
  /\ events = <<>> /\ ended = FALSE /\ httpStatus = 0 /\ body = NoResult
  /\ callLog = <<>> /\ outstanding = {}
  /\ h = InitH /\ s = InitS /\ st = InitSt /\ failedIn = ""
  /\ fn = [parked |-> IdleRun]
\* both calls have returned and their callers have the lists
BothReturned == pc = "search_done" /\ fn.parked.pc = "search_done"
\* the event loop leaves the running call at its await and continues the other
OtherContinues ==
  /\ AtAwait(pc)
  /\ ~BothReturned
  /\ pc' = fn.parked.pc
  /\ s' = fn.parked.s
  /\ callLog' = fn.parked.callLog
  /\ outstanding' = fn.parked.outstanding
  /\ fn' = [fn EXCEPT !.parked = RunningRun]
  /\ UNCHANGED << ticks, now, hasCoreKey, req, searchCache, events, ended, httpStatus, body,
                  h, st, failedIn >>
\* the callers go on with their lists
OverlapReturn ==
  /\ BothReturned
  /\ pc' = "idle" /\ s' = InitS /\ callLog' = <<>> /\ outstanding' = {}
  /\ fn' = [fn EXCEPT !.parked = IdleRun]
  /\ UNCHANGED << ticks, now, hasCoreKey, req, searchCache, events, ended, httpStatus, body,
                  h, st, failedIn >>
OverlapNext ==
  \/ \E query \in OverlapQueries : SearchCall(query, StreamLimit)
  \/ SearchCacheCheck
  \/ \E reply \in OverlapReplies : ExpandReturns(reply)
  \/ \E c \in outstanding, outcome \in {"ok", "error"} : AdapterReturns(c, outcome)
  \/ OtherContinues
  \/ OverlapReturn
  \/ Tick
OverlapSpec == OverlapInit /\ [][OverlapNext]_vars

\* the call went through the expansion and the fan-out itself
Computed(run) ==
  /\ run.pc = "search_done"
  /\ run.s.settled > 0
  /\ \E i \in 1..Len(run.callLog) : run.callLog[i].kind = "expand"
  /\ \E i \in 1..Len(run.callLog) : run.callLog[i].kind = "ss"
  /\ run.s.result = RankedResults(run.s.allResults, run.s.englishQuery, run.s.limit)
\* the call is between its cache lookup and its cache write
InFlight(run) == run.pc \in {"translating", "expanding", "primary", "alternates"}
\* both calls found no entry younger than the TTL under the one key they share
BothMissed ==
  /\ BothReturned
  /\ s.cacheKey = fn.parked.s.cacheKey
  /\ s.settled > 0 /\ fn.parked.s.settled > 0
\* C31: of two calls for one key that both found it uncached, the one that
\* looks up while the other is in flight starts its own expansion at once; both
\* make their own expansion and adapter calls and return the list they ranked
\* themselves; every finishing call overwrites the entry, so that after both the
\* cache holds the list and the time of the one that finished last.
C31_LastWriterWins ==
  /\ [][(pc = "search_check" /\ InFlight(fn.parked)
           /\ fn.parked.s.cacheKey = Trim(ToLower(s.query)))
          => (InFlight([RunningRun EXCEPT !.pc = pc']) /\ Len(callLog') > Len(callLog))]_vars
  /\ [](BothMissed =>
          /\ Computed(RunningRun) /\ Computed(fn.parked)
          /\ CacheHas(s.cacheKey)
          /\ CacheGet(s.cacheKey).results = s.result
          /\ CacheGet(s.cacheKey).timestamp = now)
\* both calls missed, the sources failed the one that finished last and
\* answered the other
C31_Witness ==
  /\ BothMissed
  /\ s.result = <<>> /\ fn.parked.s.result # <<>>
  /\ s.query # fn.parked.s.query
  /\ CacheGet(s.cacheKey).results = <<>>

(***************************************************************************)
(* generateAnswerWithCitations of the batching variant (part_001:748-897), *)
(* called on its own.  A citation is written as its index in the list; a   *)
(* call of streamOpenAIResponse is logged when it is issued and settles by *)
(* resolving to a text or by rejecting.                                    *)
(***************************************************************************)
MaxCitations == 11
BATCH_SIZE == 5
\* '\n\n'
BatchSeparator == <<"NL", "NL">>
BatchTexts == { <<>>, <<"p">>, <<"q", "r">> }
\* for (let i = 0; i < length; i += BATCH_SIZE) push(slice(i, i + BATCH_SIZE))
RECURSIVE BatchesFrom(_, _)
BatchesFrom(citationsWithKeys, i) ==
  IF i >= Len(citationsWithKeys) THEN <<>>
  ELSE << SubSeq(citationsWithKeys, i + 1, Min(i + BATCH_SIZE, Len(citationsWithKeys))) >>
         \o BatchesFrom(citationsWithKeys, i + BATCH_SIZE)
BatchCall(stage, keys, prompt) == [stage |-> stage, keys |-> keys, prompt |-> prompt]
\* a variant of BatchRethrows whose catch logs the error and goes on
BatchRethrows_Swallowed == FALSE
\* catch (error) { logger(...); throw error; }
BatchRethrows == TRUE
BatchInit ==
  /\ pc = "batch_call"
  /\ req = [endpoint |-> "stream", question |-> <<>>, closed |-> FALSE]
  /\ ticks = 0 /\ now = 0 /\ hasCoreKey = FALSE /\ searchCache = {}
  /\ events = <<>> /\ ended = FALSE /\ httpStatus = 0 /\ body = NoResult
  /\ callLog = <<>> /\ outstanding = {}
  /\ h = InitH /\ s = InitS /\ st = InitSt /\ failedIn = ""
  /\ \E n \in 0..MaxCitations :
       fn = [citations |-> [i \in 1..n |-> i], citationBatches |-> <<>>,
             batchResults |-> <<>>, calls |-> <<>>, rejected |-> 0,
             combinedAnalysis |-> <<>>,
             answer |-> <<>>, analysis |-> <<>>, citationMapping |-> <<>>]
\* the final-answer call is issued with the combined analysis in its prompt
AnswerCallFrom(run) ==
  LET combinedAnalysis == JoinWith(run.batchResults, BatchSeparator)
  IN /\ fn' = [run EXCEPT !.combinedAnalysis = combinedAnalysis,
                          !.calls = Append(@, BatchCall("final_answer", run.citations,
                                                        combinedAnalysis))]
     /\ pc' = "answer_wait"
\* the loop goes to the batch after the ones done, or leaves for the answer
NextBatchFrom(run, done) ==
  IF done < Len(run.citationBatches)
    THEN /\ fn' = [run EXCEPT !.calls = Append(@, BatchCall("analysis",
                                                  run.citationBatches[done + 1], <<>>))]
         /\ pc' = "batch_wait"
    ELSE AnswerCallFrom(run)
\* generateAnswerWithCitations is entered: the list is cut and the loop begins
BatchSplit ==
  /\ pc = "batch_call"
  /\ NextBatchFrom([fn EXCEPT !.citationBatches = BatchesFrom(fn.citations, 0)], 0)
  /\ UNCHANGED pipelineVars
\* the analysis of a batch resolves
BatchResolves(text) ==
  /\ pc = "batch_wait"
  /\ NextBatchFrom([fn EXCEPT !.batchResults = Append(@, text)], Len(fn.batchResults) + 1)
  /\ UNCHANGED pipelineVars
\* the analysis of a batch rejects; fn.rejected is the number of the batch
BatchRejects ==
  /\ pc = "batch_wait"
  /\ LET run == [fn EXCEPT !.rejected = Len(fn.calls)]
     IN IF BatchRethrows
          THEN pc' = "batch_failed" /\ fn' = run
          ELSE NextBatchFrom([run EXCEPT !.batchResults = Append(@, <<>>)],
                             Len(fn.batchResults) + 1)
  /\ UNCHANGED pipelineVars
AnswerSettles(ok, text) ==
  /\ pc = "answer_wait"
  /\ IF ok
       THEN /\ fn' = [fn EXCEPT !.answer = text, !.analysis = fn.combinedAnalysis,
                                !.citationMapping = fn.citations]
            /\ pc' = "batch_done"
       ELSE pc' = "batch_failed" /\ fn' = fn
  /\ UNCHANGED pipelineVars
BatchNext ==
  \/ BatchSplit
  \/ \E text \in BatchTexts : BatchResolves(text)
  \/ BatchRejects
  \/ \E ok \in BOOLEAN, text \in BatchTexts : AnswerSettles(ok, text)
BatchSpec == BatchInit /\ [][BatchNext]_vars

AnalysisCalls == SelectSeq(fn.calls, LAMBDA c : c.stage = "analysis")
AnswerCalls == SelectSeq(fn.calls, LAMBDA c : c.stage = "final_answer")
\* where the output of batch i begins in the combined analysis
RECURSIVE OffsetOf(_, _)
OffsetOf(results, i) ==
  IF i = 1 THEN 0 ELSE OffsetOf(results, i - 1) + Len(results[i - 1]) + 2
MaxMessages == 2
NoContent == <<"none">>
BufferMessages == { <<"a">>, <<"E9">>, NoContent }
BufferScripts == UNION { [1..n -> BufferMessages] : n \in 1..MaxMessages }
\* the UTF-8 bytes of a text
RECURSIVE Utf8(_)
Utf8(text) ==
  IF text = <<>> THEN <<>>
  ELSE (IF Head(text) = "E9" THEN <<"C3", "A9">> ELSE <<Head(text)>>) \o Utf8(Tail(text))
MessageBytes(message) ==
  <<"d1", "d2">>
    \o (IF message = NoContent THEN <<"J0">> ELSE <<"J{">> \o Utf8(message) \o <<"}J">>)
    \o <<"NL", "NL">>
WireBytes(script) ==
  Flatten([i \in 1..Len(script) |-> MessageBytes(script[i])])
    \o <<"d1", "d2", "DONE", "NL", "NL">>
\* chunk.toString(): a byte sequence that is no complete character within the
\* chunk decodes to U+FFFD, one for the lead byte and one for the continuation
RECURSIVE ChunkToString(_)
ChunkToString(chunk) ==
  IF chunk = <<>> THEN <<>>
  ELSE IF Head(chunk) = "C3" /\ Len(chunk) > 1 /\ chunk[2] = "A9"
    THEN <<"E9">> \o ChunkToString(SubSeq(chunk, 3, Len(chunk)))
  ELSE IF Head(chunk) \in {"C3", "A9"} THEN <<"FFFD">> \o ChunkToString(Tail(chunk))
  ELSE <<Head(chunk)>> \o ChunkToString(Tail(chunk))
\* buffer.indexOf('data: '), 0 for -1
PrefixIndex(buffer) ==
  LET found == { i \in 1..(Len(buffer) - 1) : buffer[i] = "d1" /\ buffer[i + 1] = "d2" }
  IN IF found = {} THEN 0 ELSE CHOOSE i \in found : \A j \in found : i <= j
\* buffer.indexOf('\n', from), 0 for -1
NewlineIndex(buffer, from) ==
  LET found == { i \in from..Len(buffer) : buffer[i] = "NL" }
  IN IF found = {} THEN 0 ELSE CHOOSE i \in found : \A j \in found : i <= j
\* JSON.parse(message).choices[0]?.delta?.content
ParsedContent(message) ==
  IF message = <<"J0">> THEN [ok |-> TRUE, content |-> <<>>]
  ELSE IF /\ Len(message) >= 2 /\ Head(message) = "J{" /\ message[Len(message)] = "}J"
          /\ \A i \in 2..(Len(message) - 1) : message[i] \in {"a", "E9", "FFFD"}
    THEN [ok |-> TRUE, content |-> SubSeq(message, 2, Len(message) - 1)]
  ELSE [ok |-> FALSE, content |-> <<>>]
\* while (processBuffer()) {}
RECURSIVE processBuffer(_)
processBuffer(run) ==
  LET prefixIndex == PrefixIndex(run.buffer)
      messageEnd == NewlineIndex(run.buffer, prefixIndex + 2)
      message == Trim(SubSeq(run.buffer, prefixIndex + 2, messageEnd - 1))
      rest == [run EXCEPT !.buffer = SubSeq(run.buffer, messageEnd + 1, Len(run.buffer))]
      parsed == ParsedContent(message)
  IN IF prefixIndex = 0 \/ messageEnd = 0 THEN run
     ELSE IF message = <<"DONE">> \/ ~parsed.ok \/ parsed.content = <<>>
       THEN processBuffer(rest)
     ELSE processBuffer([rest EXCEPT !.completeResponse = @ \o parsed.content,
                                     !.tokens = Append(@, parsed.content)])
\* the 'data' callback
OnData(run, chunk) ==
  processBuffer([run EXCEPT !.buffer = @ \o ChunkToString(chunk)])
EmptyRun == [buffer |-> <<>>, tokens |-> <<>>, completeResponse |-> <<>>]
BufferInit ==
  /\ pc = "stream_open"
  /\ req = [endpoint |-> "stream", question |-> <<>>, closed |-> FALSE]
  /\ ticks = 0 /\ now = 0 /\ hasCoreKey = FALSE /\ searchCache = {}
  /\ events = <<>> /\ ended = FALSE /\ httpStatus = 0 /\ body = NoResult
  /\ callLog = <<>> /\ outstanding = {}
  /\ h = InitH /\ s = InitS /\ st = InitSt /\ failedIn = ""
  /\ \E script \in BufferScripts :
       fn = [script |-> script, remaining |-> WireBytes(script), chunks |-> 0,
             run |-> EmptyRun, value |-> <<>>]
\* the next k bytes arrive as one chunk
DataArrives(k) ==
  /\ pc = "stream_open"
  /\ k \in 1..Len(fn.remaining)
  /\ fn' = [fn EXCEPT !.run = OnData(@, SubSeq(fn.remaining, 1, k)),
                       !.remaining = SubSeq(@, k + 1, Len(@)),
                       !.chunks = Min(@ + 1, 2)]
  /\ pc' = "stream_open"
  /\ UNCHANGED pipelineVars
\* 'end': the promise resolves to the accumulated text
StreamEnds ==
  /\ pc = "stream_open"
  /\ fn.remaining = <<>>
  /\ fn' = [fn EXCEPT !.value = fn.run.completeResponse]
  /\ pc' = "stream_resolved"
  /\ UNCHANGED pipelineVars
\* 'error': the promise rejects
StreamBreaks ==
  /\ pc = "stream_open"
  /\ fn.remaining # <<>>
  /\ pc' = "stream_rejected"
  /\ fn' = fn
  /\ UNCHANGED pipelineVars
BufferNext ==
  \/ \E k \in 1..Len(fn.remaining) : DataArrives(k)
  \/ StreamEnds
  \/ StreamBreaks
BufferSpec == BufferInit /\ [][BufferNext]_vars

\* what the delivery of the whole stream in one chunk produces
Unsplit(script) == OnData(EmptyRun, WireBytes(script))
\* C40: when the stream has ended, the tokens forwarded and the accumulated
\* text are those of the delivery in one chunk, however the bytes were cut.
C40_ChunkingInvariant ==
  pc = "stream_resolved" =>
    /\ fn.run.tokens = Unsplit(fn.script).tokens
    /\ fn.value = Unsplit(fn.script).completeResponse

====
